---- MODULE Spec2Model ----
(***************************************************************************)
(* Model of the ssv user/credential core: the LMDB-backed user store, the  *)
(* invite, password-edit and email-edit workflows, login with its lockout  *)
(* window, user removal, the admin edits and session invalidation.         *)
(*                                                                         *)
(* Every db.Update(func(txn) error) of the source is one atomic action:    *)
(* LMDB admits one write transaction at a time (across goroutines and      *)
(* processes), commits the writes when the closure returns nil and drops   *)
(* them when it returns an error.  Each transaction body is a pure         *)
(* operator <Name>Txn from the store before to the store after plus the    *)
(* errors; the action <Name> applies Update to it.                         *)
(***************************************************************************)
EXTENDS Integers, Sequences, FiniteSets, TLC

VARIABLES
    userDB,     \* the "user" DBI: key -> value (user records and index entries)
    sessionDB,  \* the "session" DBI: session entries and per-user session index
    now,        \* time.Now(), in minutes
    nextID,     \* number of user ids drawn from crypto/rand so far
    ticks,      \* number of clock steps taken
    issued,     \* history: issued[t] = what raw token t was minted for
    failed,     \* history: per user, when LoginUser answered with the credential error
    env,        \* what the surroundings may do: "nominal", "collisions", "faults",
                \* "limited"
    buckets,    \* tokens left in each rate limiter's bucket
    configDB,   \* the "config" DBI: key -> value
    procs,      \* the concurrent callers: where each is in its call, and its locals
    writer,     \* the caller that holds LMDB's write lock (0: nobody)
    updateMu,   \* the caller that holds update.updateMu (0: nobody)
    lastDetach, \* update.lastDetach, in seconds
    pipelines,  \* history: when each detached install pipeline was started
    clock,      \* the daemon's monotonic clock, in seconds
    last        \* the last call: its name, arguments and returned error

vars == <<userDB, sessionDB, now, nextID, ticks, issued, failed, env, buckets,
          configDB, procs, writer, updateMu, lastDetach, pipelines, clock, last>>

\* the concurrent callers and what they share
conc == <<configDB, procs, writer, updateMu, lastDetach, pipelines, clock>>

----------------------------------------------------------------------------
(* Bounds of the model *)

MaxUsers == 2
MaxTokens == 3
MaxTicks == 1
MaxProcs == 6          \* concurrent callers
MaxClock == 31         \* seconds the daemon's clock runs
MaxUpdateCalls == 3    \* requests to /update
MaxHourTicks == 2      \* clock steps of about an hour (login window)

(* Program constants, in minutes *)

InviteMaxAgeHours == 12
PassEditMaxAgeMinutes == 15
EmailEditMaxAgeMinutes == 15
MinutesPerHour == 60
PPVersion == 1
MaxFailedLogins == 5
FailedLoginDuration == MinutesPerHour

(* Inputs *)

Emails == {"a@x", "A@x", "b@x", "c@x", "nope"}
InviteEmails == {"a@x", "A@x", "b@x", "nope"}      \* addresses invited
CandidateEmails == {"A@x", "b@x", "c@x", "nope"}   \* addresses asked for in an e-mail edit
Passwords == {"p1", "p2"}
Names == {"bob"}
PermSets == {<<"admin">>}
Salts == {"s1"}
SessionIDs == {"s1"}
LoginEmails == {"a@x", "A@x", "c@x", ""}     \* addresses typed at login
HourSteps == {FailedLoginDuration - 1, FailedLoginDuration}
TickSteps == {PassEditMaxAgeMinutes, PassEditMaxAgeMinutes + 1,
              InviteMaxAgeHours * MinutesPerHour, InviteMaxAgeHours * MinutesPerHour + 1}

----------------------------------------------------------------------------
(* Values *)

NoKey == <<>>          \* a nil / empty []byte
ZeroTime == 0          \* time.Time{}
Nil == [code |-> 0, msg |-> "nil"]
Err(c, m) == [code |-> c, msg |-> m]   \* &xhttp.Err{Code: c, Msg: m}
PlainErr(m) == [code |-> 500, msg |-> m]  \* a plain Go error: internal

\* sha256.Sum256: collision-free on the values of the model
Sha256(x) == <<"sha256", x>>

\* strings.ToLower on the e-mail addresses of the model
ToLower(s) == IF s = "A@x" THEN "a@x" ELSE s

\* strings.EqualFold
EqualFold(s, t) == ToLower(s) = ToLower(t)

\* mail.ParseAddress succeeds
IsAddressValid(e) == e # "nope"

\* mutant: the key is taken from the address as typed
emailToKeyCaseSensitive(email) == <<"email.", Sha256(email)>>

emailToKey(email) == <<"email.", Sha256(ToLower(email))>>
TokenKey(prefix, token) == <<prefix, Sha256(token)>>
UserKey(id) == <<"user.", id>>
UserKeys == {UserKey(i) : i \in 1..MaxUsers}
SessionIndexKey(userKey) == <<"user_sessions.", Sha256(userKey)>>
SessionKey(s) == <<"session.", s>>

\* mutant: the hash does not depend on the password
HashPasswordOfSalt(password, salt) == <<"argon2", "p1", salt>>

\* crypto.HashPassword / crypto.ComparePasswords (argon2 over password and salt)
HashPassword(password, salt) == <<"argon2", password, salt>>
ComparePasswords(password, passHash, passSalt) ==
    passHash = HashPassword(password, passSalt)

\* the zero value of the User struct, as json.Unmarshal rebuilds it
ZeroUser ==
    [Perms |-> <<>>, Name |-> "", Email |-> "", EditEmail |-> "",
     AgreedPP |-> 0, Notified |-> FALSE,
     PassSalt |-> "", PassHash |-> <<>>, FailedLogins |-> <<>>,
     InviteExpiry |-> ZeroTime, EmailEditExpiry |-> ZeroTime,
     PassEditExpiry |-> ZeroTime,
     EmailKey |-> NoKey, InviteKey |-> NoKey,
     EmailEditKey |-> NoKey, PassEditKey |-> NoKey]

----------------------------------------------------------------------------
(* The LMDB transaction contract *)

Has(db, k) == k \in DOMAIN db
Put(db, k, v) == [x \in (DOMAIN db) \cup {k} |-> IF x = k THEN v ELSE db[x]]
Del(db, k) == [x \in (DOMAIN db) \ {k} |-> db[x]]
EmptyDB == [x \in {} |-> NoKey]

\* the concurrent callers
Procs == 1 .. MaxProcs

\* a caller that has not called yet
NotCalled ==
    [pc |-> "idle", email |-> "", password |-> "", view |-> EmptyDB, user |-> NoKey,
     err |-> Nil, val |-> FALSE]

\* const DetachUpdateDelay = 30 * time.Second
DetachUpdateDelay == 30

\* txn.Del with an empty key: mdb_del rejects it (MDB_BAD_VALSIZE) or reports
\* the key missing; the binding is not part of the sources, both are modelled.
DelEmptyKeyOutcomes == {"BadValSize", "NotFound"}

\* "if len(key) > 0 { txn.Del(key) }": drop the index entry of a pending
\* attempt (StartPasswordEdit, StartEmailEdit, RemoveUser)
\* mutant: the pending attempt's index entry is left in place
DropPendingKeeps(db, key) == db

DropPending(db, key) == IF key # NoKey THEN Del(db, key) ELSE db

\* the Complete calls delete the index entry of the presented token
\* mutant: the presented token's index entry survives the call
ConsumeTokenKeeps(db, key) == db

ConsumeToken(db, key) == Del(db, key)

\* time.Time.Before, and the expiry test of the two edit workflows
Before(a, b) == a < b

\* mutant: an elapsed expiry is not noticed
ExpiredNever(expiry, t) == expiry = ZeroTime

Expired(expiry, t) == Before(expiry, t) \/ expiry = ZeroTime

\* mutant: the writes are committed whatever the closure returned
UpdateAlwaysCommits(db, res) == res.db

\* db.Update: commit when the closure returned nil, else leave the store alone
Update(db, res) == IF res.err = Nil THEN res.db ELSE db

\* the error the caller gets from a call that keeps a separate returnErr
Returned(res) == IF res.returnErr # Nil THEN res.returnErr ELSE res.err

----------------------------------------------------------------------------
(* genKey and the user-id loop of StartUserInvite, over the finite sequence *)
(* of values the random source returns (at most 10 are consumed)            *)

MaxKeyAttempts == 10

Attempts(draws) == 1 .. (IF Len(draws) < MaxKeyAttempts THEN Len(draws) ELSE MaxKeyAttempts)

\* mutant: the first candidate is taken without looking it up
genKeyUnchecked(db, prefix, draws) ==
    [key |-> TokenKey(prefix, draws[1]), token |-> draws[1], err |-> Nil]

genKey(db, prefix, draws) ==
    LET free == {i \in Attempts(draws) : ~Has(db, TokenKey(prefix, draws[i]))}
        first == CHOOSE i \in free : \A j \in free : i <= j
    IN IF free = {}
       THEN [key |-> NoKey, token |-> 0, err |-> PlainErr("failed to generate unique token key")]
       ELSE [key |-> TokenKey(prefix, draws[first]), token |-> draws[first], err |-> Nil]

genUserID(db, draws) ==
    LET free == {i \in Attempts(draws) : ~Has(db, UserKey(draws[i]))}
        first == CHOOSE i \in free : \A j \in free : i <= j
        lastTry == CHOOSE i \in Attempts(draws) : \A j \in Attempts(draws) : j <= i
    IN IF free = {} THEN UserKey(draws[lastTry]) ELSE UserKey(draws[first])

\* email.SendEmail: the mail transport works or fails
SendEmail(sendOK) == IF sendOK THEN Nil ELSE PlainErr("send failed")
Sent(sendOK) == IF sendOK THEN "ok" ELSE "failed"

\* history of the tokens mailed out: what each was minted for, and whether a
\* Complete call has succeeded with it
Minted(ns, userKey) == [ns |-> ns, user |-> userKey, used |-> FALSE]
Redeem(hist, ns, token, success) ==
    IF success /\ token \in 1..Len(hist) /\ hist[token].ns = ns
    THEN [hist EXCEPT ![token].used = TRUE]
    ELSE hist

\* the random source never repeats a value: the next token and the next id
FreshToken == Len(issued) + 1
FreshID == nextID + 1

\* a random source that may repeat itself: a value once or on all draws but
\* the last, and then another value, up to the MaxKeyAttempts draws a loop
\* consumes
RepeatingDraws(values) ==
    {[i \in 1..MaxKeyAttempts |-> IF i < j THEN a ELSE b] :
        j \in {2, MaxKeyAttempts}, a \in values, b \in values}

Least(a, b) == IF a < b THEN a ELSE b

\* what GenRandomString may return to one call: nominally values never seen
\* before; under "collisions" also the values it has already returned
TokenValues ==
    IF env = "collisions" THEN 1 .. Least(FreshToken, MaxTokens)
    ELSE IF FreshToken <= MaxTokens THEN {FreshToken} ELSE {}
IDValues ==
    IF env = "collisions" THEN 1 .. Least(FreshID, MaxUsers)
    ELSE IF FreshID <= MaxUsers THEN {FreshID} ELSE {}
TokenDraws == IF env = "collisions" THEN RepeatingDraws(TokenValues)
              ELSE {<<v>> : v \in TokenValues}
IDDraws == IF env = "collisions" THEN RepeatingDraws(IDValues)
           ELSE {<<v>> : v \in IDValues}

\* history: raw token `token` is mailed out (again, when the source repeats)
Mint(hist, token, ns, userKey) ==
    IF token = Len(hist) + 1 THEN Append(hist, Minted(ns, userKey))
    ELSE [hist EXCEPT ![token] = Minted(ns, userKey)]

----------------------------------------------------------------------------
(* What a call leaves in `last` *)

Result(op, err, token, user, email, sent) ==
    [op |-> op, err |-> err, token |-> token, user |-> user, email |-> email,
     sent |-> sent, name |-> "", password |-> "", sessions |-> 0, users |-> <<>>,
     faulted |-> FALSE]

\* the same for a call whose transaction ran on a name and a password
WithCredentials(result, name, password) ==
    [result EXCEPT !.name = name, !.password = password]

\* history: how many sessions the user's index listed when the call began
Listed(sdb, userKey) ==
    IF Has(sdb, SessionIndexKey(userKey)) THEN Len(sdb[SessionIndexKey(userKey)]) ELSE 0
WithSessions(result, sdb) == [result EXCEPT !.sessions = Listed(sdb, result.user)]

\* the same for a call during which a store operation failed
WithFault(result, faulted) == [result EXCEPT !.faulted = faulted]

\* the same for a read: the users it returned
WithUsers(result, users) == [result EXCEPT !.users = users]

\* no call is in progress
Idle == Result("none", Nil, 0, NoKey, "", "none")

\* mutant: the rejected call has already used up the presented token
RejectedConsumes(op, err, token, email) ==
    /\ last' = Result(op, err, 0, NoKey, "", "none")
    /\ userDB' = [k \in DOMAIN userDB \ {TokenKey(ns, token) : ns \in {"invite.", "password_edit.", "email_edit."}} |-> userDB[k]]
    /\ UNCHANGED <<conc, env, buckets, failed, sessionDB, now, nextID, ticks, issued>>

\* a call that returned before it opened a transaction
Rejected(op, err, token, email) ==
    /\ last' = Result(op, err, 0, NoKey, "", "none")
    /\ UNCHANGED <<conc, env, buckets, failed, userDB, sessionDB, now, nextID, ticks, issued>>

\* raw tokens a caller may present: "" (0), issued ones and guesses
PresentedTokens == 0 .. MaxTokens

\* The calls of the model.  A call that is rejected before its transaction
\* does not depend on its other arguments, so one call stands for each
\* rejection: an argument is invalid (or the limiter refuses) only while
\* every other argument has its first valid value.
OneFault(a, faults) == Cardinality({f \in DOMAIN faults : faults[f]}) <= 1

CompleteUserInviteCalls ==
    {a \in [token : PresentedTokens, username : Names \cup {""},
            password : Passwords \cup {""}, allow : BOOLEAN, salt : Salts] :
        LET faults == [token |-> a.token = 0, username |-> a.username = "",
                       password |-> a.password = "", allow |-> ~a.allow]
        IN \/ \A f \in DOMAIN faults : ~faults[f]
           \/ /\ OneFault(a, faults)
              /\ a.token \in {0, 1}
              /\ a.password \in {"", "p1"}}

CompletePasswordEditCalls ==
    {a \in [token : PresentedTokens, newPassword : Passwords \cup {""},
            waited : BOOLEAN, salt : Salts] :
        LET faults == [token |-> a.token = 0, newPassword |-> a.newPassword = "",
                       waited |-> ~a.waited]
        IN \/ \A f \in DOMAIN faults : ~faults[f]
           \/ /\ OneFault(a, faults)
              /\ a.token \in {0, 1}
              /\ a.newPassword \in {"", "p1"}}

CompleteEmailEditCalls ==
    {a \in [token : PresentedTokens, waited : BOOLEAN, delEmpty : DelEmptyKeyOutcomes] :
        LET faults == [token |-> a.token = 0, waited |-> ~a.waited]
        IN \/ \A f \in DOMAIN faults : ~faults[f]
           \/ /\ OneFault(a, faults)
              /\ a.token \in {0, 1}
              /\ a.delEmpty = "NotFound"}

StartEmailEditCalls ==
    {a \in [userKey : UserKeys \cup {NoKey}, emailCandidate : CandidateEmails,
            sendOK : BOOLEAN] :
        LET faults == [userKey |-> a.userKey = NoKey,
                       emailCandidate |-> ~IsAddressValid(a.emailCandidate)]
        IN \/ \A f \in DOMAIN faults : ~faults[f]
           \/ /\ OneFault(a, faults)
              /\ a.userKey \in {NoKey, UserKey(1)}
              /\ a.emailCandidate \in {"nope", "b@x"}
              /\ a.sendOK}

StartByEmailCalls(emails) ==
    {a \in [userEmail : emails, sendOK : BOOLEAN] :
        IsAddressValid(a.userEmail) \/ a.sendOK}

----------------------------------------------------------------------------
(* StartUserInvite *)

StartUserInviteTxn(db, userEmail, perms, rawToken, idDraws, sendOK, t) ==
    LET emailKey == emailToKey(userEmail)
        inviteKey == TokenKey("invite.", rawToken)
        newUser == [ZeroUser EXCEPT !.Perms = perms, !.Email = userEmail,
                                    !.InviteExpiry = t + InviteMaxAgeHours * MinutesPerHour,
                                    !.InviteKey = inviteKey]
        newUserID == genUserID(db, idDraws)
        db1 == Put(db, newUserID, newUser)
        db2 == Put(db1, emailKey, newUserID)
        db3 == Put(db2, inviteKey, newUserID)
    IN IF Has(db, emailKey)
       THEN [db |-> db, err |-> Err(409, "email already in use"), user |-> NoKey,
             sent |-> "none"]
       ELSE [db |-> db3, err |-> SendEmail(sendOK), user |-> newUserID,
             sent |-> Sent(sendOK)]

StartUserInvite ==
  /\ last = Idle
  /\ writer = 0
  /\ \E call \in StartByEmailCalls(InviteEmails), perms \in PermSets :
      LET userEmail == call.userEmail
          sendOK == call.sendOK
      IN
        IF ~IsAddressValid(userEmail)
        THEN Rejected("StartUserInvite", Err(400, "invalid email"), 0, userEmail)
        ELSE /\ \E rawToken \in TokenValues, idDraws \in IDDraws :
                LET res == StartUserInviteTxn(userDB, userEmail, perms, rawToken,
                                              idDraws, sendOK, now)
                    ok == res.err = Nil
                IN /\ userDB' = Update(userDB, res)
                   /\ nextID' = IF ok /\ res.user = UserKey(FreshID)
                                 THEN nextID + 1 ELSE nextID
                   /\ issued' = IF ok THEN Mint(issued, rawToken, "invite.", res.user)
                                      ELSE issued
                   /\ last' = Result("StartUserInvite", res.err,
                                     IF ok THEN rawToken ELSE 0,
                                     IF ok THEN res.user ELSE NoKey, userEmail, res.sent)
             /\ UNCHANGED <<conc, env, buckets, failed, sessionDB, now, ticks>>

----------------------------------------------------------------------------
(* CompleteUserInvite *)

(* The rate limiters, in units of their refill interval (200 ms) *)

\* rate.NewLimiter(rate.Every(200*time.Millisecond), 5): the bucket starts full
Limiters == {"inviteLimiter", "passEditLimiter", "emailEditLimiter"}
Burst == 5

\* context.WithTimeout(ctx, 2*time.Second): ten refill intervals
WaitDeadline == 10

\* refill intervals until the bucket holds a token for one more caller
TokenDelay(l) == IF buckets[l] >= 1 THEN 0 ELSE 1 - buckets[l]

\* limiter.Allow(): whether a token is there now.  Outside "limited" the
\* limiter is left open: it may answer either way.
Allow(l) == IF env = "limited" THEN {TokenDelay(l) = 0} ELSE BOOLEAN

\* limiter.Wait(ctx): whether the token comes within the deadline; the
\* caller reserves it and sleeps until then
Wait(l) == IF env = "limited" THEN {TokenDelay(l) <= WaitDeadline} ELSE BOOLEAN

\* the admitted caller's token leaves the bucket (a reservation leaves a debt)
Take(l) == IF env = "limited" THEN [buckets EXCEPT ![l] = @ - 1] ELSE buckets

----------------------------------------------------------------------------
\* A store operation of a transaction may fail with an error other than
\* not-found.  `op` names the one that does ("none": none does); such an
\* error may leave the transaction fit to commit or not (breaksTxn).
NoFault == [op |-> "none", breaksTxn |-> FALSE]
StoreFaults(ops) ==
    IF env = "faults"
    THEN {NoFault} \cup {[op |-> o, breaksTxn |-> b] : o \in ops, b \in BOOLEAN}
    ELSE {NoFault}

CompleteUserInviteOps ==
    {"getInvite", "getUser", "delExpiredInvite", "delExpiredUser", "putUser", "delInvite"}

CompleteUserInviteTxn(db, token, username, passHash, passSalt, ppVersion, t, fault) ==
    LET inviteKey == TokenKey("invite.", token)
        userKey == db[inviteKey]
        user == db[userKey]
        updated == [user EXCEPT !.Name = username, !.PassHash = passHash,
                                !.PassSalt = passSalt, !.InviteKey = NoKey,
                                !.InviteExpiry = ZeroTime, !.AgreedPP = ppVersion,
                                !.Notified = TRUE]
        \* expired: both deletes are attempted, a failure is only logged
        db1 == IF fault.op = "delExpiredInvite" THEN db ELSE ConsumeToken(db, inviteKey)
        db2 == IF fault.op = "delExpiredUser" THEN db1 ELSE Del(db1, userKey)
        logged == fault.op \in {"delExpiredInvite", "delExpiredUser"}
    IN IF fault.op = "getInvite"
       THEN [db |-> db, err |-> PlainErr("store failure"), expired |-> FALSE,
             user |-> NoKey, faulted |-> TRUE]
       ELSE IF ~Has(db, inviteKey)
       THEN [db |-> db, err |-> Err(404, "invite not found"), expired |-> FALSE,
             user |-> NoKey, faulted |-> FALSE]
       ELSE IF fault.op = "getUser" \/ ~Has(db, userKey)
       THEN [db |-> db, err |-> PlainErr("failed to get user by invite key"),
             expired |-> FALSE, user |-> userKey, faulted |-> fault.op = "getUser"]
       ELSE IF Before(user.InviteExpiry, t)
       THEN \* delete invite key and user, commit
            IF logged /\ fault.breaksTxn
            THEN [db |-> db, err |-> PlainErr("commit failed"), expired |-> TRUE,
                  user |-> userKey, faulted |-> TRUE]
            ELSE [db |-> db2, err |-> Nil, expired |-> TRUE, user |-> userKey,
                  faulted |-> logged]
       ELSE IF fault.op = "putUser"
       THEN [db |-> db, err |-> PlainErr("failed to save updated user"),
             expired |-> FALSE, user |-> userKey, faulted |-> TRUE]
       ELSE IF fault.op = "delInvite"
       THEN [db |-> Put(db, userKey, updated), err |-> PlainErr("failed to delete invite key"),
             expired |-> FALSE, user |-> userKey, faulted |-> TRUE]
       ELSE [db |-> ConsumeToken(Put(db, userKey, updated), inviteKey), err |-> Nil,
             expired |-> FALSE, user |-> userKey, faulted |-> FALSE]

CompleteUserInvite ==
  /\ last = Idle
  /\ \E call \in CompleteUserInviteCalls :
      LET token == call.token
          username == call.username
          password == call.password
          allow == call.allow
          salt == call.salt
      IN
        IF token = 0
        THEN Rejected("CompleteUserInvite", Err(400, "invalid token"), token, "")
        ELSE IF username = ""
        THEN Rejected("CompleteUserInvite", Err(400, "invalid username"), token, "")
        ELSE IF password = ""
        THEN Rejected("CompleteUserInvite", Err(400, "invalid password"), token, "")
        ELSE IF allow \notin Allow("inviteLimiter")
        THEN FALSE
        ELSE IF ~allow
        THEN Rejected("CompleteUserInvite",
                      Err(429, "too many requests, try again later"), token, "")
        ELSE \E fault \in StoreFaults(CompleteUserInviteOps) :
             LET res == CompleteUserInviteTxn(userDB, token, username,
                                              HashPassword(password, salt), salt,
                                              PPVersion, now, fault)
             IN /\ userDB' = Update(userDB, res)
                /\ last' = WithFault(WithCredentials(
                              Result("CompleteUserInvite",
                                     IF res.expired THEN Err(400, "invite expired")
                                                    ELSE res.err,
                                     token, res.user, "", "none"),
                              username, password), res.faulted)
                /\ issued' = Redeem(issued, "invite.", token, res.err = Nil /\ ~res.expired)
                /\ buckets' = Take("inviteLimiter")
                /\ UNCHANGED <<conc, env, failed, sessionDB, now, nextID, ticks>>

----------------------------------------------------------------------------
(* invalidateUserSessions *)

RECURSIVE DelAll(_, _)
DelAll(db, keys) ==
    IF keys = <<>> THEN db
    ELSE DelAll(IF Head(keys) = NoKey THEN db ELSE Del(db, Head(keys)), Tail(keys))

\* mutant: the sessions are left alone
invalidateUserSessionsSkips(sdb, userKey) == [sdb |-> sdb, err |-> Nil]

invalidateUserSessions(sdb, userKey) ==
    LET indexKey == SessionIndexKey(userKey)
    IN IF userKey = NoKey
       THEN [sdb |-> sdb, err |-> PlainErr("user ID is empty when invalidating sessions")]
       ELSE IF ~Has(sdb, indexKey)
       THEN [sdb |-> sdb, err |-> Nil]
       ELSE [sdb |-> Del(DelAll(sdb, sdb[indexKey]), indexKey), err |-> Nil]

----------------------------------------------------------------------------
(* StartPasswordEdit *)

StartPasswordEditTxn(db, userEmail, tokenDraws, sendOK, t) ==
    LET emailKey == emailToKey(userEmail)
        userKey == db[emailKey]
        user == db[userKey]
        db1 == DropPending(db, user.PassEditKey)
        gen == genKey(db1, "password_edit.", tokenDraws)
        updated == [user EXCEPT !.PassEditKey = gen.key,
                                !.PassEditExpiry = t + PassEditMaxAgeMinutes]
        db2 == Put(db1, userKey, updated)
        db3 == Put(db2, gen.key, userKey)
        none == [db |-> db, token |-> 0, user |-> NoKey, sent |-> "none"]
    IN IF ~Has(db, emailKey)
       THEN none @@ [err |-> Err(404, "user not found")]
       ELSE IF userKey = NoKey
       THEN none @@ [err |-> PlainErr("empty user ID for email")]
       ELSE IF ~Has(db, userKey)
       THEN [none EXCEPT !.user = userKey] @@ [err |-> PlainErr("failed to fetch user")]
       ELSE IF gen.err # Nil
       THEN [db |-> db1, token |-> 0, user |-> userKey, sent |-> "none",
             err |-> PlainErr("failed to generate password edit key")]
       ELSE [db |-> db3, token |-> gen.token, user |-> userKey, sent |-> Sent(sendOK),
             err |-> SendEmail(sendOK)]

StartPasswordEdit ==
  /\ last = Idle
  /\ \E call \in StartByEmailCalls(Emails) :
      LET userEmail == call.userEmail
          sendOK == call.sendOK
      IN
        IF ~IsAddressValid(userEmail)
        THEN Rejected("StartPasswordEdit", Err(400, "invalid email"), 0, userEmail)
        ELSE \E tokenDraws \in IF TokenDraws = {} THEN {<<>>} ELSE TokenDraws :
             LET res == StartPasswordEditTxn(userDB, userEmail,
                                             IF tokenDraws = <<>> THEN <<FreshToken>>
                                                                  ELSE tokenDraws,
                                             sendOK, now)
                 ok == res.err = Nil
             IN /\ res.token # 0 => tokenDraws # <<>>
                /\ userDB' = Update(userDB, res)
                /\ issued' = IF ok THEN Mint(issued, res.token, "password_edit.", res.user)
                                   ELSE issued
                /\ last' = Result("StartPasswordEdit", res.err,
                                  IF ok THEN res.token ELSE 0, res.user, userEmail,
                                  res.sent)
                /\ UNCHANGED <<conc, env, buckets, failed, sessionDB, now, nextID, ticks>>

----------------------------------------------------------------------------
(* CompletePasswordEdit *)

\* mutant: the key is cleared, the expiry stays
ClearPassEditKeyOnly(user) == [user EXCEPT !.PassEditKey = NoKey]

\* "user.PassEditKey = nil; user.PassEditExpiry = time.Time{}"
ClearPassEdit(user) == [user EXCEPT !.PassEditKey = NoKey, !.PassEditExpiry = ZeroTime]

CompletePasswordEditTxn(db, sdb, token, passHash, passSalt, t) ==
    LET passKey == TokenKey("password_edit.", token)
        userKey == db[passKey]
        db1 == ConsumeToken(db, passKey)
        user == db1[userKey]
        noPending == IF user.PassEditKey = NoKey
                     THEN Err(500, "Whoops, something went wrong") ELSE Nil
        returnErr == IF Expired(user.PassEditExpiry, t)
                     THEN Err(400, "password reset token expired") ELSE noPending
        inv == invalidateUserSessions(sdb, userKey)
        changed == IF returnErr = Nil
                   THEN [user EXCEPT !.PassHash = passHash, !.PassSalt = passSalt]
                   ELSE user
        saved == ClearPassEdit(changed)
        none == [db |-> db, sdb |-> sdb, returnErr |-> Nil, user |-> NoKey]
    IN IF ~Has(db, passKey)
       THEN none @@ [err |-> Err(404, "password reset token not found")]
       ELSE IF ~Has(db1, userKey)
       THEN [none EXCEPT !.user = userKey] @@ [err |-> PlainErr("failed to fetch user")]
       ELSE IF returnErr = Nil /\ inv.err # Nil
       THEN [none EXCEPT !.user = userKey] @@ [err |-> inv.err]
       ELSE [db |-> Put(db1, userKey, saved),
             sdb |-> IF returnErr = Nil THEN inv.sdb ELSE sdb,
             returnErr |-> returnErr, user |-> userKey, err |-> Nil]

CompletePasswordEdit ==
  /\ last = Idle
  /\ \E call \in CompletePasswordEditCalls :
      LET token == call.token
          newPassword == call.newPassword
          waited == call.waited
          salt == call.salt
      IN
        IF token = 0
        THEN Rejected("CompletePasswordEdit", Err(400, "invalid token"), token, "")
        ELSE IF newPassword = ""
        THEN Rejected("CompletePasswordEdit", Err(400, "invalid password"), token, "")
        ELSE IF waited \notin Wait("passEditLimiter")
        THEN FALSE
        ELSE IF ~waited
        THEN Rejected("CompletePasswordEdit",
                      Err(429, "too many requests, try again later"), token, "")
        ELSE LET res == CompletePasswordEditTxn(userDB, sessionDB, token,
                                                HashPassword(newPassword, salt), salt, now)
             IN /\ userDB' = Update(userDB, res)
                /\ sessionDB' = IF res.err = Nil THEN res.sdb ELSE sessionDB
                /\ last' = WithSessions(Result("CompletePasswordEdit", Returned(res),
                                                token, res.user, "", "none"), sessionDB)
                /\ issued' = Redeem(issued, "password_edit.", token, Returned(res) = Nil)
                /\ buckets' = Take("passEditLimiter")
                /\ UNCHANGED <<conc, env, failed, now, nextID, ticks>>

----------------------------------------------------------------------------
(* StartEmailEdit *)

StartEmailEditTxn(db, userKey, emailCandidate, tokenDraws, sendOK, t) ==
    LET candidateKey == emailToKey(emailCandidate)
        user == db[userKey]
        db1 == DropPending(db, user.EmailEditKey)
        gen == genKey(db1, "email_edit.", tokenDraws)
        updated == [user EXCEPT !.EditEmail = emailCandidate,
                                !.EmailEditKey = gen.key,
                                !.EmailEditExpiry = t + EmailEditMaxAgeMinutes]
        db2 == Put(db1, userKey, updated)
        db3 == Put(db2, gen.key, userKey)
        none == [db |-> db, token |-> 0, sent |-> "none"]
    IN IF Has(db, candidateKey)
       THEN none @@ [err |-> Err(409, "email already in use")]
       ELSE IF ~Has(db, userKey)
       THEN none @@ [err |-> PlainErr("failed to fetch user")]
       ELSE IF EqualFold(user.Email, emailCandidate)
       THEN none @@ [err |-> Err(400, "this is already your current email")]
       ELSE IF gen.err # Nil
       THEN [db |-> db1, token |-> 0, sent |-> "none",
             err |-> PlainErr("failed to generate email edit key")]
       ELSE [db |-> db3, token |-> gen.token, sent |-> Sent(sendOK),
             err |-> SendEmail(sendOK)]

StartEmailEdit ==
  /\ last = Idle
  /\ \E call \in StartEmailEditCalls :
      LET userKey == call.userKey
          emailCandidate == call.emailCandidate
          sendOK == call.sendOK
      IN
        IF userKey = NoKey
        THEN Rejected("StartEmailEdit", Err(400, "invalid user"), 0, emailCandidate)
        ELSE IF ~IsAddressValid(emailCandidate)
        THEN Rejected("StartEmailEdit", Err(400, "invalid email"), 0, emailCandidate)
        ELSE \E tokenDraws \in IF TokenDraws = {} THEN {<<>>} ELSE TokenDraws :
             LET res == StartEmailEditTxn(userDB, userKey, emailCandidate,
                                          IF tokenDraws = <<>> THEN <<FreshToken>>
                                                               ELSE tokenDraws,
                                          sendOK, now)
                 ok == res.err = Nil
             IN /\ res.token # 0 => tokenDraws # <<>>
                /\ userDB' = Update(userDB, res)
                /\ issued' = IF ok THEN Mint(issued, res.token, "email_edit.", userKey)
                                   ELSE issued
                /\ last' = Result("StartEmailEdit", res.err,
                                  IF ok THEN res.token ELSE 0, userKey, emailCandidate,
                                  res.sent)
                /\ UNCHANGED <<conc, env, buckets, failed, sessionDB, now, nextID, ticks>>

----------------------------------------------------------------------------
(* CompleteEmailEdit *)

\* mutant: the candidate is not looked up again at completion
CandidateInUseUnchecked(db, editEmail) == FALSE

\* "check candidate email not in use", at completion time
CandidateInUse(db, editEmail) == editEmail # "" /\ Has(db, emailToKey(editEmail))

CompleteEmailEditTxn(db, sdb, token, delEmpty, t) ==
    LET emailKey == TokenKey("email_edit.", token)
        userKey == db[emailKey]
        db1 == ConsumeToken(db, emailKey)
        user == db1[userKey]
        noPending == IF user.EditEmail = "" \/ user.EmailEditKey = NoKey
                     THEN Err(500, "Whoops, something went wrong") ELSE Nil
        expired == IF Expired(user.EmailEditExpiry, t)
                   THEN Err(400, "email verification token expired") ELSE noPending
        newEmailKey == IF user.EditEmail # "" THEN emailToKey(user.EditEmail) ELSE NoKey
        returnErr == IF CandidateInUse(db1, user.EditEmail)
                     THEN Err(409, "email already in use") ELSE expired
        db2 == Put(Del(db1, user.EmailKey), newEmailKey, userKey)
        inv == invalidateUserSessions(sdb, userKey)
        changed == IF returnErr = Nil
                   THEN [user EXCEPT !.Email = user.EditEmail, !.EmailKey = newEmailKey]
                   ELSE user
        saved == [changed EXCEPT !.EditEmail = "", !.EmailEditKey = NoKey,
                                 !.EmailEditExpiry = ZeroTime]
        none == [db |-> db, sdb |-> sdb, returnErr |-> Nil, user |-> NoKey]
    IN IF ~Has(db, emailKey)
       THEN none @@ [err |-> Err(404, "email verification token not found")]
       ELSE IF ~Has(db1, userKey)
       THEN [none EXCEPT !.user = userKey] @@ [err |-> PlainErr("failed to fetch user")]
       ELSE IF returnErr = Nil /\ user.EmailKey = NoKey /\ delEmpty = "BadValSize"
       THEN [none EXCEPT !.user = userKey]
            @@ [err |-> PlainErr("failed to delete old email mapping")]
       ELSE IF returnErr = Nil /\ inv.err # Nil
       THEN [none EXCEPT !.user = userKey] @@ [err |-> inv.err]
       ELSE [db |-> Put(IF returnErr = Nil THEN db2 ELSE db1, userKey, saved),
             sdb |-> IF returnErr = Nil THEN inv.sdb ELSE sdb,
             returnErr |-> returnErr, user |-> userKey, err |-> Nil]

CompleteEmailEdit ==
  /\ last = Idle
  /\ \E call \in CompleteEmailEditCalls :
      LET token == call.token
          waited == call.waited
          delEmpty == call.delEmpty
      IN
        IF token = 0
        THEN Rejected("CompleteEmailEdit", Err(400, "invalid token"), token, "")
        ELSE IF waited \notin Wait("emailEditLimiter")
        THEN FALSE
        ELSE IF ~waited
        THEN Rejected("CompleteEmailEdit",
                      Err(429, "too many requests, try again later"), token, "")
        ELSE LET res == CompleteEmailEditTxn(userDB, sessionDB, token, delEmpty, now)
             IN /\ userDB' = Update(userDB, res)
                /\ sessionDB' = IF res.err = Nil THEN res.sdb ELSE sessionDB
                /\ last' = WithSessions(Result("CompleteEmailEdit", Returned(res), token,
                                                res.user, "", "none"), sessionDB)
                /\ issued' = Redeem(issued, "email_edit.", token, Returned(res) = Nil)
                /\ buckets' = Take("emailEditLimiter")
                /\ UNCHANGED <<conc, env, failed, now, nextID, ticks>>

----------------------------------------------------------------------------
(* RemoveUser and the admin edits *)

RemoveUserTxn(db, userKey) ==
    LET user == db[userKey]
        db1 == Del(db, user.EmailKey)
        db2 == DropPending(db1, user.InviteKey)
        db3 == DropPending(db2, user.EmailEditKey)
        db4 == DropPending(db3, user.PassEditKey)
    IN IF ~Has(db, userKey)
       THEN [db |-> db, err |-> PlainErr("MDB_NOTFOUND")]
       ELSE IF user.EmailKey = NoKey
       THEN [db |-> db, err |-> PlainErr("user email key is empty")]
       ELSE [db |-> Del(db4, userKey), err |-> Nil]

RemoveUser ==
  /\ last = Idle
  /\ \E userKey \in UserKeys :
        LET res == RemoveUserTxn(userDB, userKey)
        IN /\ userDB' = Update(userDB, res)
           /\ last' = Result("RemoveUser", res.err, 0, userKey, "", "none")
           /\ UNCHANGED <<conc, env, buckets, failed, sessionDB, now, nextID, ticks, issued>>

SetUserPermsTxn(db, userKey, perms) ==
    IF ~Has(db, userKey)
    THEN [db |-> db, err |-> PlainErr("MDB_NOTFOUND")]
    ELSE [db |-> Put(db, userKey, [db[userKey] EXCEPT !.Perms = perms]), err |-> Nil]

SetUserPerms ==
  /\ last = Idle
  /\ \E userKey \in UserKeys, perms \in PermSets :
        LET res == SetUserPermsTxn(userDB, userKey, perms)
        IN /\ userDB' = Update(userDB, res)
           /\ last' = Result("SetUserPerms", res.err, 0, userKey, "", "none")
           /\ UNCHANGED <<conc, env, buckets, failed, sessionDB, now, nextID, ticks, issued>>

SetUserEmailTxn(db, userKey, newEmail, delEmpty) ==
    LET user == db[userKey]
        db1 == Del(db, user.EmailKey)
        updated == [user EXCEPT !.Email = newEmail, !.EmailKey = emailToKey(newEmail)]
        db2 == Put(db1, userKey, updated)
    IN IF ~Has(db, userKey)
       THEN [db |-> db, err |-> PlainErr("MDB_NOTFOUND")]
       ELSE IF user.EmailKey = NoKey /\ delEmpty = "BadValSize"
       THEN [db |-> db, err |-> PlainErr("failed to delete old email key")]
       ELSE [db |-> Put(db2, updated.EmailKey, userKey), err |-> Nil]

SetUserEmail ==
  /\ last = Idle
  /\ \E userKey \in UserKeys, newEmail \in Emails, delEmpty \in DelEmptyKeyOutcomes :
        LET res == SetUserEmailTxn(userDB, userKey, newEmail, delEmpty)
        IN /\ userDB' = Update(userDB, res)
           /\ last' = Result("SetUserEmail", res.err, 0, userKey, newEmail, "none")
           /\ UNCHANGED <<conc, env, buckets, failed, sessionDB, now, nextID, ticks, issued>>

----------------------------------------------------------------------------
(* The reads: GetUserByKey, GetUserByEmail, GetAllUsers *)

\* mutant: only the salt is blanked
RedactSaltOnly(user, key) == [user EXCEPT !.PassSalt = ""] @@ [ID |-> key]

\* "add id, redact secrets"
Redact(user, key) == [user EXCEPT !.PassSalt = "", !.PassHash = <<>>] @@ [ID |-> key]

GetUserByKeyRead(db, userKey) ==
    IF ~Has(db, userKey)
    THEN [users |-> <<>>, err |-> PlainErr("MDB_NOTFOUND")]
    ELSE [users |-> <<Redact(db[userKey], userKey)>>, err |-> Nil]

GetUserByEmailRead(db, email) ==
    IF ~Has(db, emailToKey(email))
    THEN [users |-> <<>>, err |-> PlainErr("MDB_NOTFOUND")]
    ELSE IF db[emailToKey(email)] # NoKey
    THEN GetUserByKeyRead(db, db[emailToKey(email)])
    ELSE [users |-> <<>>, err |-> PlainErr("user with email not found")]

\* the cursor walk over the keys with prefix "user.", in key order
RECURSIVE UsersFrom(_, _)
UsersFrom(db, id) ==
    IF id > MaxUsers THEN <<>>
    ELSE (IF Has(db, UserKey(id)) THEN <<Redact(db[UserKey(id)], UserKey(id))>> ELSE <<>>)
         \o UsersFrom(db, id + 1)

GetAllUsersRead(db) == [users |-> UsersFrom(db, 1), err |-> Nil]

GetUserByKey ==
  /\ last = Idle
  /\ \E userKey \in UserKeys :
        LET res == GetUserByKeyRead(userDB, userKey)
        IN /\ last' = WithUsers(Result("GetUserByKey", res.err, 0, userKey, "", "none"),
                                res.users)
           /\ UNCHANGED <<conc, env, buckets, failed, userDB, sessionDB, now, nextID, ticks, issued>>

GetUserByEmail ==
  /\ last = Idle
  /\ \E email \in LoginEmails \ {""} :
        LET res == GetUserByEmailRead(userDB, email)
        IN /\ last' = WithUsers(Result("GetUserByEmail", res.err, 0, NoKey, email, "none"),
                                res.users)
           /\ UNCHANGED <<conc, env, buckets, failed, userDB, sessionDB, now, nextID, ticks, issued>>

GetAllUsers ==
  /\ last = Idle
  /\ LET res == GetAllUsersRead(userDB)
     IN /\ last' = WithUsers(Result("GetAllUsers", res.err, 0, NoKey, "", "none"),
                             res.users)
        /\ UNCHANGED <<conc, env, buckets, failed, userDB, sessionDB, now, nextID, ticks, issued>>

----------------------------------------------------------------------------
(* LoginUser and ResetUserFailedLogins *)

GenericLoginErr == Err(401, "invalid email or password")
LoginLockoutErr ==
    Err(403, "account locked due to too many failed login attempts, try again later")

LoginUserCalls ==
    {a \in [email : LoginEmails, password : Passwords \cup {""}] :
        \/ a.email # "" /\ a.password # ""
        \/ a.email = "" /\ a.password = "p1"
        \/ a.email = "a@x" /\ a.password = ""}

\* mutant: a timestamp exactly one hour old is kept
RecentLoginsInclusive(failedLogins, t) ==
    SelectSeq(failedLogins, LAMBDA x : t - x <= FailedLoginDuration)

\* "remove old failed logins": the timestamps less than an hour old, in order
RecentLogins(failedLogins, t) ==
    SelectSeq(failedLogins, LAMBDA x : t - x < FailedLoginDuration)

\* mutant: the attempt is recorded whatever the length of the stored list
RecordAttemptAlways(failedLogins, pruned, t) == Append(pruned, t)

\* the attempt's time joins the pruned list while the stored list is short
RecordAttempt(failedLogins, pruned, t) ==
    IF Len(failedLogins) < MaxFailedLogins  \* prevent unbounded growth
    THEN Append(pruned, t) ELSE pruned

\* mutant: the threshold itself is not enough to lock the account
TooManyFailedLoginsStrict(failedLogins) == Len(failedLogins) > MaxFailedLogins

\* "if too many failed logins, reject"
TooManyFailedLogins(failedLogins) == Len(failedLogins) >= MaxFailedLogins

LoginUserOps == {"getEmail", "getUser", "putUser"}

LoginUserTxn(db, email, password, t, fault) ==
    LET emailKey == emailToKey(email)
        userKey == db[emailKey]
        user == db[userKey]
        pruned == RecentLogins(user.FailedLogins, t)
        updatedFailedLogins == RecordAttempt(user.FailedLogins, pruned, t)
        updated == [user EXCEPT !.FailedLogins = updatedFailedLogins]
        saved == Put(db, userKey, updated)
        answer(d, err, returnErr, key, faulted) ==
            [db |-> d, err |-> err, returnErr |-> returnErr, userKey |-> key,
             faulted |-> faulted]
    IN IF fault.op = "getEmail"
       THEN \* not not-found: falls through with no key
            answer(db, PlainErr("empty user key for email"), Nil, NoKey, TRUE)
       ELSE IF ~Has(db, emailKey)
       THEN answer(db, GenericLoginErr, Nil, NoKey, FALSE)
       ELSE IF userKey = NoKey
       THEN answer(db, PlainErr("empty user key for email"), Nil, NoKey, FALSE)
       ELSE IF fault.op = "getUser"
       THEN answer(db, PlainErr("store failure"), Nil, userKey, TRUE)
       ELSE IF ~Has(db, userKey)
       THEN answer(db, PlainErr("MDB_NOTFOUND"), Nil, userKey, FALSE)
       ELSE IF fault.op = "putUser"
       THEN answer(db, PlainErr("failed to save user"), Nil, userKey, TRUE)
       ELSE IF TooManyFailedLogins(updated.FailedLogins)
       THEN answer(saved, Nil, LoginLockoutErr, userKey, FALSE)
       ELSE IF ~ComparePasswords(password, user.PassHash, user.PassSalt)
       THEN answer(saved, Nil, GenericLoginErr, userKey, FALSE)
       ELSE answer(saved, Nil, Nil, userKey, FALSE)

\* history: one more credential error for a user that exists (the last
\* MaxFailedLogins of them are kept)
NoteFailure(hist, userKey, t) ==
    LET all == Append(hist[userKey], t)
        kept == IF Len(all) > MaxFailedLogins THEN Tail(all) ELSE all
    IN [hist EXCEPT ![userKey] = kept]

LoginUser ==
  /\ last = Idle
  /\ \E call \in LoginUserCalls :
      LET email == call.email
          password == call.password
      IN
        IF email = ""
        THEN Rejected("LoginUser", Err(400, "invalid email"), 0, email)
        ELSE IF password = ""
        THEN Rejected("LoginUser", Err(400, "invalid password"), 0, email)
        ELSE \E fault \in StoreFaults(LoginUserOps) :
             LET res == LoginUserTxn(userDB, email, password, now, fault)
             IN /\ userDB' = Update(userDB, res)
                /\ last' = WithFault(WithCredentials(
                              Result("LoginUser", Returned(res), 0, res.userKey, email,
                                     "none"),
                              "", password), res.faulted)
                /\ failed' = IF Returned(res) = GenericLoginErr /\ res.userKey \in UserKeys
                              THEN NoteFailure(failed, res.userKey, now)
                              ELSE failed
                /\ UNCHANGED <<conc, env, buckets, sessionDB, now, nextID, ticks, issued>>

(* LoginUser called from several goroutines at once.  db.Update begins a   *)
(* write transaction, which waits for LMDB's write lock, runs the closure *)
(* on the store as of the begin and commits on nil.                       *)

\* mutant: write transactions do not exclude each other
WriterFreeAlways(w) == TRUE

\* mdb_txn_begin of a write transaction returns once no other one is open
WriterFree(w) == w = 0

\* callers are interchangeable: they call in the order of their numbers
NextCaller(p) == procs[p].pc = "idle" /\ \A q \in 1..(p - 1) : procs[q].pc # "idle"

Called(p, pc, email, password, view) ==
    [procs EXCEPT ![p] = [NotCalled EXCEPT !.pc = pc, !.email = email,
                                           !.password = password, !.view = view]]
Finished(p, userKey, err, val) ==
    [procs EXCEPT ![p] = [NotCalled EXCEPT !.pc = "done", !.user = userKey,
                                           !.err = err, !.val = val]]
Release(p) == IF writer = p THEN 0 ELSE writer

LoginUserBegin ==
  \E p \in Procs, call \in LoginUserCalls :
    /\ NextCaller(p)
    /\ IF call.email = ""
       THEN /\ procs' = Finished(p, NoKey, Err(400, "invalid email"), FALSE)
            /\ UNCHANGED writer
       ELSE IF call.password = ""
       THEN /\ procs' = Finished(p, NoKey, Err(400, "invalid password"), FALSE)
            /\ UNCHANGED writer
       ELSE /\ WriterFree(writer)
            /\ writer' = p
            /\ procs' = Called(p, "LoginUser", call.email, call.password, userDB)
    /\ UNCHANGED <<userDB, sessionDB, now, nextID, ticks, issued, failed, env, buckets,
                   configDB, updateMu, lastDetach, pipelines, clock, last>>

LoginUserCommit ==
  \E p \in Procs :
    /\ procs[p].pc = "LoginUser"
    /\ LET res == LoginUserTxn(procs[p].view, procs[p].email, procs[p].password, now,
                               NoFault)
       IN /\ userDB' = Update(userDB, res)
          /\ procs' = Finished(p, res.userKey, Returned(res), FALSE)
    /\ writer' = Release(p)
    /\ UNCHANGED <<sessionDB, now, nextID, ticks, issued, failed, env, buckets,
                   configDB, updateMu, lastDetach, pipelines, clock, last>>

----------------------------------------------------------------------------
(* LoginUser as src/go/services/users/login.go has it: the password is *)
(* compared first, and only a mismatch is recorded                     *)

MaxHourlyFailedLogins == 5

LoginUserHourlyTxn(db, email, password, t) ==
    LET emailKey == emailToKey(email)
        id == db[emailKey]
        user == db[id]
        pruned == SelectSeq(user.FailedLogins, LAMBDA x : t - x < MinutesPerHour)
        updatedFailedLogins ==
            IF Len(user.FailedLogins) < MaxHourlyFailedLogins  \* prevent unbounded growth
            THEN Append(pruned, t) ELSE pruned
        updated == [user EXCEPT !.FailedLogins = updatedFailedLogins]
        answer(d, err, returnErr, key) ==
            [db |-> d, err |-> err, returnErr |-> returnErr, userKey |-> key]
    IN IF ~Has(db, emailKey)
       THEN answer(db, GenericLoginErr, Nil, NoKey)
       ELSE IF id = NoKey
       THEN answer(db, PlainErr("empty user ID for email"), Nil, NoKey)
       ELSE IF ~Has(db, id)
       THEN answer(db, PlainErr("MDB_NOTFOUND"), Nil, id)
       ELSE IF ComparePasswords(password, user.PassHash, user.PassSalt)
       THEN \* check password / happy path
            answer(db, Nil, Nil, id)
       ELSE \* the lockout error is assigned and then overwritten
            answer(Put(db, id, updated), Nil, GenericLoginErr, id)

LoginUserHourly ==
  /\ last = Idle
  /\ \E call \in LoginUserCalls :
      LET email == call.email
          password == call.password
      IN
        IF email = ""
        THEN Rejected("LoginUser", Err(400, "invalid email"), 0, email)
        ELSE IF password = ""
        THEN Rejected("LoginUser", Err(400, "invalid password"), 0, email)
        ELSE LET res == LoginUserHourlyTxn(userDB, email, password, now)
             IN /\ userDB' = Update(userDB, res)
                /\ last' = WithCredentials(
                              Result("LoginUser", Returned(res), 0, res.userKey, email,
                                     "none"),
                              "", password)
                /\ failed' = IF Returned(res) = GenericLoginErr /\ res.userKey \in UserKeys
                              THEN NoteFailure(failed, res.userKey, now)
                              ELSE failed
                /\ UNCHANGED <<conc, env, buckets, sessionDB, now, nextID, ticks, issued>>

\* the transaction of a concurrent call, with the closure of login.go
LoginUserHourlyCommit ==
  \E p \in Procs :
    /\ procs[p].pc = "LoginUser"
    /\ LET res == LoginUserHourlyTxn(procs[p].view, procs[p].email, procs[p].password,
                                     now)
       IN /\ userDB' = Update(userDB, res)
          /\ procs' = Finished(p, res.userKey, Returned(res), FALSE)
    /\ writer' = Release(p)
    /\ UNCHANGED <<sessionDB, now, nextID, ticks, issued, failed, env, buckets,
                   configDB, updateMu, lastDetach, pipelines, clock, last>>

ResetUserFailedLoginsTxn(db, userKey) ==
    IF ~Has(db, userKey)
    THEN [db |-> db, err |-> PlainErr("MDB_NOTFOUND")]
    ELSE [db |-> Put(db, userKey, [db[userKey] EXCEPT !.FailedLogins = <<>>]),
          err |-> Nil]

ResetUserFailedLogins ==
  /\ last = Idle
  /\ \E userKey \in UserKeys :
        LET res == ResetUserFailedLoginsTxn(userDB, userKey)
        IN /\ userDB' = Update(userDB, res)
           /\ last' = Result("ResetUserFailedLogins", res.err, 0, userKey, "", "none")
           /\ failed' = IF res.err = Nil THEN [failed EXCEPT ![userKey] = <<>>]
                         ELSE failed
           /\ UNCHANGED <<conc, env, buckets, sessionDB, now, nextID, ticks, issued>>

----------------------------------------------------------------------------
(* Session issuance (the collaborator that fills the per-user session index) *)

RecordSession ==
  /\ last = Idle
  /\ \E userKey \in UserKeys, s \in SessionIDs :
        LET indexKey == SessionIndexKey(userKey)
            listed == IF Has(sessionDB, indexKey) THEN sessionDB[indexKey] ELSE <<>>
        IN /\ Has(userDB, userKey)
           /\ ~Has(sessionDB, SessionKey(s))
           /\ sessionDB' = Put(Put(sessionDB, SessionKey(s), userKey),
                               indexKey, Append(listed, SessionKey(s)))
           /\ last' = Result("RecordSession", Nil, 0, userKey, "", "none")
           /\ UNCHANGED <<conc, env, buckets, failed, userDB, now, nextID, ticks, issued>>

----------------------------------------------------------------------------
(* The caller takes the returned error; the next call may start *)

Return ==
    /\ last # Idle
    /\ last' = Idle
    /\ UNCHANGED <<conc, env, buckets, failed, userDB, sessionDB, now, nextID, ticks, issued>>

----------------------------------------------------------------------------
(* Time *)

----------------------------------------------------------------------------
(* The config package: a versioned schema of defaults in the "config" DBI, *)
(* shared by every instance of the program that opens the data directory   *)

\* const Version = "v1.0.0"
Version == "v1.0.0"

\* SchemaRecord[Version]: key -> default value (the keys used here, and port
\* for the rest)
SchemaKeys == {"version", "updateNotify", "updateAvailable", "port"}
DefaultValue(key) ==
    CASE key = "version" -> "v1.0.0"
      [] key = "updateNotify" -> TRUE
      [] key = "updateAvailable" -> FALSE
      [] key = "port" -> 28080

\* Migrations: "from->to" paths with a migration function
Migrations == {<<"v0.0.1", "v0.0.2">>}

\* "no version found, initialize config": every key of the schema is put
InitialValues(db) ==
    [k \in DOMAIN db \cup SchemaKeys |-> IF k \in SchemaKeys THEN DefaultValue(k) ELSE db[k]]

MigrateTxn(db) ==
    IF ~Has(db, "version")
    THEN [db |-> InitialValues(db), err |-> Nil]
    ELSE IF db["version"] = Version
    THEN [db |-> db, err |-> Nil]
    ELSE IF <<db["version"], Version>> \in Migrations
    THEN [db |-> Put(db, "version", Version), err |-> Nil]
    ELSE [db |-> db, err |-> PlainErr("unsupported migration path")]

\* the caller is at pc, holding val
At(p, pc, val) == [procs EXCEPT ![p] = [NotCalled EXCEPT !.pc = pc, !.val = val]]

\* an instance starts: config.Init calls Migrate, whose db.Update begins
MigrateBegin ==
  \E p \in Procs :
    /\ NextCaller(p)
    /\ WriterFree(writer)
    /\ writer' = p
    /\ procs' = Called(p, "Migrate", "", "", configDB)
    /\ UNCHANGED <<userDB, sessionDB, now, nextID, ticks, issued, failed, env, buckets,
                   configDB, updateMu, lastDetach, pipelines, clock, last>>

\* the closure of Migrate runs on the store as of the begin, and commits
MigrateCommit ==
  \E p \in Procs :
    /\ procs[p].pc = "Migrate"
    /\ LET res == MigrateTxn(procs[p].view)
       IN /\ configDB' = Update(configDB, res)
          /\ procs' = IF res.err = Nil THEN At(p, "ready", FALSE)
                       ELSE Finished(p, NoKey, res.err, FALSE)
    /\ writer' = Release(p)
    /\ UNCHANGED <<userDB, sessionDB, now, nextID, ticks, issued, failed, env, buckets,
                   updateMu, lastDetach, pipelines, clock, last>>

\* update-toggle-notify, "get": config.Get reads in a transaction of its own
UpdateToggleNotifyGet ==
  \E p \in Procs :
    /\ procs[p].pc = "ready"
    /\ procs' = IF Has(configDB, "updateNotify")
                 THEN At(p, "UpdateToggleNotify", configDB["updateNotify"])
                 ELSE Finished(p, NoKey,
                               PlainErr("failed to get updateNotify from config"), FALSE)
    /\ UNCHANGED <<userDB, sessionDB, now, nextID, ticks, issued, failed, env, buckets,
                   configDB, writer, updateMu, lastDetach, pipelines, clock, last>>

\* update-toggle-notify, "set": config.Set writes in a transaction of its own
UpdateToggleNotifySet ==
  \E p \in Procs :
    /\ procs[p].pc = "UpdateToggleNotify"
    /\ WriterFree(writer)
    /\ configDB' = Put(configDB, "updateNotify", ~procs[p].val)
    /\ procs' = Finished(p, NoKey, Nil, ~procs[p].val)
    /\ UNCHANGED <<userDB, sessionDB, now, nextID, ticks, issued, failed, env, buckets,
                   writer, updateMu, lastDetach, pipelines, clock, last>>

----------------------------------------------------------------------------
(* package update: Update(ctx, detach = true), as the daemon's /update      *)
(* handler calls it from concurrent requests                                *)

\* version.FromContext(ctx): unset, a dev build, or a release
CurrentVersions == {"", "vX.X.X", "v1.0.0"}

\* what git.LatestGitHubReleaseTag answers within its 10 seconds
LatestReleases == {"error", "v1.0.0", "v1.0.1"}

\* semver.Compare(v, w) > 0 on the releases above
SemverRank(v) == IF v = "v1.0.0" THEN 0 ELSE 1
SemverGreater(v, w) == SemverRank(v) > SemverRank(w)

\* time.Since(lastDetach) < DetachUpdateDelay
TooRecent(t, l) == t - l < DetachUpdateDelay

\* updateMu.Lock() goes through
MutexFreeAlways(mu) == TRUE
MutexFree(mu) == mu = 0

\* a request to /update arrives: the handler calls Update(ctx, true)
UpdateCall ==
  \E p \in Procs :
    /\ NextCaller(p)
    /\ p <= MaxUpdateCalls
    /\ procs' = At(p, "Update", FALSE)
    /\ UNCHANGED <<userDB, sessionDB, now, nextID, ticks, issued, failed, env, buckets,
                   configDB, writer, updateMu, lastDetach, pipelines, clock, last>>

\* updateMu.Lock(), the test of lastDetach and of the version; the call
\* either returns (and unlocks) or goes on to look up the latest release
UpdateLock ==
  \E p \in Procs, currentVersion \in CurrentVersions :
    /\ procs[p].pc = "Update"
    /\ MutexFree(updateMu)
    /\ IF TooRecent(clock, lastDetach)
       THEN /\ procs' = Finished(p, NoKey,
                   PlainErr("update already initiated recently, please wait a bit before trying again"),
                   FALSE)
            /\ UNCHANGED updateMu
       ELSE IF currentVersion = ""
       THEN /\ procs' = Finished(p, NoKey, PlainErr("current version not found"), FALSE)
            /\ UNCHANGED updateMu
       ELSE IF currentVersion = "vX.X.X"
       THEN /\ procs' = Finished(p, NoKey, Nil, FALSE)
            /\ UNCHANGED updateMu
       ELSE /\ procs' = At(p, "LatestGitHubReleaseTag", FALSE)
            /\ updateMu' = p
    /\ UNCHANGED <<userDB, sessionDB, now, nextID, ticks, issued, failed, env, buckets,
                   configDB, writer, lastDetach, pipelines, clock, last>>

\* the lookup answers; with a newer release: config.Set, lastDetach, the log
\* file and cmd.Start; then the deferred updateMu.Unlock()
UpdateInstall ==
  \E p \in Procs, latest \in LatestReleases, setOK, openOK, startOK \in BOOLEAN :
    /\ procs[p].pc = "LatestGitHubReleaseTag"
    /\ WriterFree(writer)
    /\ IF latest = "error"
       THEN /\ procs' = Finished(p, NoKey, PlainErr("failed to get latest release"), FALSE)
            /\ UNCHANGED <<configDB, lastDetach, pipelines>>
       ELSE IF ~SemverGreater(latest, "v1.0.0")
       THEN /\ procs' = Finished(p, NoKey, Nil, FALSE)
            /\ UNCHANGED <<configDB, lastDetach, pipelines>>
       ELSE IF ~setOK
       THEN /\ procs' = Finished(p, NoKey,
                                 PlainErr("failed to set updateAvailable in config"), FALSE)
            /\ UNCHANGED <<configDB, lastDetach, pipelines>>
       ELSE /\ configDB' = Put(configDB, "updateAvailable", FALSE)
            /\ lastDetach' = clock
            /\ IF ~openOK
               THEN /\ procs' = Finished(p, NoKey, PlainErr("open log"), FALSE)
                    /\ UNCHANGED pipelines
               ELSE IF ~startOK
               THEN /\ procs' = Finished(p, NoKey, PlainErr("failed to start update"), FALSE)
                    /\ UNCHANGED pipelines
               ELSE /\ procs' = Finished(p, NoKey, Nil, TRUE)
                    /\ pipelines' = Append(pipelines, clock)
    /\ updateMu' = IF updateMu = p THEN 0 ELSE updateMu
    /\ UNCHANGED <<userDB, sessionDB, now, nextID, ticks, issued, failed, env, buckets,
                   writer, clock, last>>

\* Check: the daily lookup stores whether a newer release exists
Check ==
  \E updateAvailable \in BOOLEAN :
    /\ WriterFree(writer)
    /\ configDB' = Put(configDB, "updateAvailable", updateAvailable)
    /\ UNCHANGED <<userDB, sessionDB, now, nextID, ticks, issued, failed, env, buckets,
                   procs, writer, updateMu, lastDetach, pipelines, clock, last>>

\* seconds pass
SecondsPass ==
  \E d \in {1, DetachUpdateDelay - 1} :
    /\ clock + d <= MaxClock
    /\ clock' = clock + d
    /\ UNCHANGED <<userDB, sessionDB, now, nextID, ticks, issued, failed, env, buckets,
                   configDB, procs, writer, updateMu, lastDetach, pipelines, last>>

----------------------------------------------------------------------------
\* one refill interval passes: each bucket gains a token, up to its burst
Elapse ==
  /\ last = Idle
  /\ env = "limited"
  /\ \E l \in Limiters : buckets[l] < Burst
  /\ buckets' = [l \in Limiters |-> Least(Burst, buckets[l] + 1)]
  /\ UNCHANGED <<conc, env, failed, userDB, sessionDB, now, nextID, ticks, issued, last>>

Tick ==
  /\ last = Idle
  /\ \E d \in TickSteps :
        /\ ticks < MaxTicks
        /\ now' = now + d
        /\ ticks' = ticks + 1
        /\ UNCHANGED <<conc, env, buckets, failed, userDB, sessionDB, nextID, issued, last>>

\* the clock around the login window
TickHour ==
  /\ last = Idle
  /\ \E d \in HourSteps :
        /\ ticks < MaxHourTicks
        /\ now' = now + d
        /\ ticks' = ticks + 1
        /\ UNCHANGED <<conc, env, buckets, failed, userDB, sessionDB, nextID, issued, last>>

----------------------------------------------------------------------------

\* the stores are empty, the limiters full; e says what the surroundings may do
InitIn(e) ==
    /\ userDB = EmptyDB
    /\ sessionDB = EmptyDB
    /\ now = 1
    /\ nextID = 0
    /\ ticks = 0
    /\ issued = <<>>
    /\ failed = [u \in UserKeys |-> <<>>]
    /\ env = e
    /\ buckets = [l \in Limiters |-> Burst]
    /\ configDB = EmptyDB
    /\ procs = [p \in Procs |-> NotCalled]
    /\ writer = 0
    /\ updateMu = 0
    /\ lastDetach = 0 - DetachUpdateDelay   \* time.Now().Add(-DetachUpdateDelay)
    /\ pipelines = <<>>
    /\ clock = 0
    /\ last = Idle

\* the random source never repeats a value and the store never fails
Init == InitIn("nominal")

\* the random source may repeat values
InitCollisions == InitIn("collisions")

\* the workflows, user removal and the permission edit
Next ==
    \/ StartUserInvite
    \/ CompleteUserInvite
    \/ StartPasswordEdit
    \/ CompletePasswordEdit
    \/ StartEmailEdit
    \/ CompleteEmailEdit
    \/ RemoveUser
    \/ SetUserPerms
    \/ RecordSession
    \/ Return
    \/ Tick

Spec == Init /\ [][Next]_vars

\* registration and the admin operations; the admin e-mail edit bypasses
\* verification
NextAdmin ==
    \/ StartUserInvite
    \/ CompleteUserInvite
    \/ SetUserEmail
    \/ SetUserPerms
    \/ RemoveUser
    \/ Return

SpecAdmin == Init /\ [][NextAdmin]_vars

\* registration and login with the lockout window
NextLogin ==
    \/ StartUserInvite
    \/ CompleteUserInvite
    \/ LoginUser
    \/ ResetUserFailedLogins
    \/ Return
    \/ TickHour

SpecLogin == Init /\ [][NextLogin]_vars

\* several LoginUser calls at once on invited users
NextLoginConcurrent ==
    \/ StartUserInvite
    \/ LoginUserBegin
    \/ LoginUserCommit
    \/ Return

SpecLoginConcurrent == Init /\ [][NextLoginConcurrent]_vars

\* instances of the program that start and toggle the update notification
NextConfig ==
    \/ MigrateBegin
    \/ MigrateCommit
    \/ UpdateToggleNotifyGet
    \/ UpdateToggleNotifySet

SpecConfig == Init /\ [][NextConfig]_vars

\* the daemon serving concurrent requests to /update
NextUpdate ==
    \/ UpdateCall
    \/ UpdateLock
    \/ UpdateInstall
    \/ Check
    \/ SecondsPass

SpecUpdate == Init /\ [][NextUpdate]_vars

\* the same with the LoginUser of login.go
NextLoginHourlyConcurrent ==
    \/ StartUserInvite
    \/ LoginUserBegin
    \/ LoginUserHourlyCommit
    \/ Return

SpecLoginHourlyConcurrent == Init /\ [][NextLoginHourlyConcurrent]_vars

\* the same with the LoginUser of login.go
NextLoginHourly ==
    \/ StartUserInvite
    \/ CompleteUserInvite
    \/ LoginUserHourly
    \/ ResetUserFailedLogins
    \/ Return
    \/ TickHour

SpecLoginHourly == Init /\ [][NextLoginHourly]_vars

\* registration and the reads
NextRead ==
    \/ StartUserInvite
    \/ CompleteUserInvite
    \/ GetUserByKey
    \/ GetUserByEmail
    \/ GetAllUsers
    \/ Return

SpecRead == Init /\ [][NextRead]_vars

\* the store may fail
InitFaults == InitIn("faults")

\* the rate limiters count their tokens
InitLimited == InitIn("limited")

\* the rate-limited operations, with the invite that feeds the first
NextLimited ==
    \/ StartUserInvite
    \/ CompleteUserInvite
    \/ CompletePasswordEdit
    \/ CompleteEmailEdit
    \/ Elapse
    \/ Return

SpecLimited == InitLimited /\ [][NextLimited]_vars

\* registration and login on a store that may fail
NextFaults ==
    \/ StartUserInvite
    \/ CompleteUserInvite
    \/ LoginUser
    \/ Tick
    \/ Return

SpecFaults == InitFaults /\ [][NextFaults]_vars

\* registration and password reset on a random source that may repeat itself
NextCollisions ==
    \/ StartUserInvite
    \/ StartPasswordEdit
    \/ Return

SpecCollisions == InitCollisions /\ [][NextCollisions]_vars

----------------------------------------------------------------------------
(* Properties *)

UserRecs == {k \in DOMAIN userDB : k[1] = "user."}
IndexKeys(prefix) == {k \in DOMAIN userDB : k[1] = prefix}
IndexOf(prefix, userKey) == {k \in IndexKeys(prefix) : userDB[k] = userKey}

EditNs == {"password_edit.", "email_edit."}
StartOp(ns) ==
    IF ns = "password_edit." THEN "StartPasswordEdit"
    ELSE IF ns = "email_edit." THEN "StartEmailEdit" ELSE "StartUserInvite"
CompleteOp(ns) ==
    IF ns = "password_edit." THEN "CompletePasswordEdit"
    ELSE IF ns = "email_edit." THEN "CompleteEmailEdit" ELSE "CompleteUserInvite"
KeyField(user, ns) ==
    IF ns = "password_edit." THEN user.PassEditKey
    ELSE IF ns = "email_edit." THEN user.EmailEditKey ELSE user.InviteKey

\* token t was minted for the same workflow and user as a later token
Superseded(hist, t) ==
    \E t2 \in (t + 1) .. Len(hist) :
        hist[t2].ns = hist[t].ns /\ hist[t2].user = hist[t].user

\* C1: in every committed state no two stored users have the same lower-cased
\* e-mail, and the e-mail index entry of each stored user's e-mail exists and
\* maps to that user.
C1_EmailUniqueness ==
    /\ \A u1, u2 \in UserRecs :
          ToLower(userDB[u1].Email) = ToLower(userDB[u2].Email) => u1 = u2
    /\ \A u \in UserRecs :
          LET k == <<"email.", Sha256(ToLower(userDB[u].Email))>>
          IN Has(userDB, k) /\ userDB[k] = u

\* C1 witness: two users are stored and an e-mail change has just succeeded
C1_Witness ==
    /\ Cardinality(UserRecs) = 2
    /\ last.op = "CompleteEmailEdit"
    /\ last.err = Nil

\* C2: a StartUserInvite whose mail send fails returns an error and leaves the
\* committed store exactly as it was before the call.
C2_InviteStartAtomic ==
    [][(last'.op = "StartUserInvite" /\ last'.sent = "failed")
          => /\ last'.err # Nil
             /\ userDB' = userDB
             /\ sessionDB' = sessionDB]_vars

\* C2 witness: the send failed in a StartUserInvite on a store holding a user
C2_Witness ==
    /\ last.op = "StartUserInvite"
    /\ last.sent = "failed"
    /\ UserRecs # {}

\* C3: after a second successful Start of an edit workflow for a user the
\* first token's index entry is gone and the second token's entry maps to the
\* user; a Complete with the superseded token returns 404 and changes nothing
\* (so the second token stays as it was).
C3_SingleLiveToken ==
    [][/\ \A ns \in EditNs :
            (last'.op = StartOp(ns) /\ last'.err = Nil)
            => LET k2 == TokenKey(ns, last'.token)
               IN /\ Has(userDB', k2)
                  /\ userDB'[k2] = last'.user
                  /\ KeyField(userDB'[last'.user], ns) = k2
                  /\ \A t \in 1 .. Len(issued) :
                        (issued[t].ns = ns /\ issued[t].user = last'.user)
                        => ~Has(userDB', TokenKey(ns, t))
       /\ \A t \in 1 .. Len(issued) :
            (/\ issued[t].ns \in EditNs
             /\ Superseded(issued, t)
             /\ last'.op = CompleteOp(issued[t].ns)
             /\ last'.token = t)
            => /\ last'.err.code = 404
               /\ userDB' = userDB
               /\ sessionDB' = sessionDB]_vars

\* C3 witness: a Complete was called with a superseded password-edit token
\* while the token that superseded it is still indexed
C3_Witness ==
    /\ last.op = "CompletePasswordEdit"
    /\ last.token \in 1 .. Len(issued)
    /\ issued[last.token].ns = "password_edit."
    /\ Superseded(issued, last.token)
    /\ IndexOf("password_edit.", issued[last.token].user) # {}

\* C4: in every committed state at most one password_edit. index entry maps to
\* a given user, and right after a StartPasswordEdit has committed exactly one
\* does and it is the user's PassEditKey.
C4_OnePasswordEditEntry ==
    /\ \A u \in UserKeys : Cardinality(IndexOf("password_edit.", u)) <= 1
    /\ (last.op = "StartPasswordEdit" /\ last.err = Nil)
       => /\ Has(userDB, last.user)
          /\ IndexOf("password_edit.", last.user) = {userDB[last.user].PassEditKey}

\* C4 witness: a second StartPasswordEdit for the same user has committed
C4_Witness ==
    /\ last.op = "StartPasswordEdit"
    /\ last.err = Nil
    /\ \E t \in 1 .. (last.token - 1) :
          issued[t].ns = "password_edit." /\ issued[t].user = last.user

Namespaces == {"invite.", "password_edit.", "email_edit."}
IndexOfIn(db, prefix, userKey) ==
    {k \in DOMAIN db : k[1] = prefix /\ db[k] = userKey}

\* C5: an invite./password_edit./email_edit. index entry k -> u exists if and
\* only if user u exists and its key field of that workflow equals k.
C5_TokenIndexConsistency ==
    \A ns \in Namespaces :
        /\ \A k \in IndexKeys(ns) :
              /\ Has(userDB, userDB[k])
              /\ KeyField(userDB[userDB[k]], ns) = k
        /\ \A u \in UserRecs :
              KeyField(userDB[u], ns) # NoKey
              => /\ Has(userDB, KeyField(userDB[u], ns))
                 /\ userDB[KeyField(userDB[u], ns)] = u

\* C6: CompleteUserInvite with a token whose user's InviteExpiry has passed
\* returns 400 "invite expired" and commits a state without the user record,
\* without the invite index entry and without the user's e-mail index entry.
C6_ExpiredInviteCleanup ==
    [][\A t \in 1 .. MaxTokens :
         LET k == <<"invite.", Sha256(t)>>
             u == userDB[k]
         IN (/\ last'.op = "CompleteUserInvite"
             /\ last'.token = t
             /\ k \in DOMAIN userDB
             /\ u \in DOMAIN userDB
             /\ userDB[u].InviteExpiry < now)
            => /\ last'.err = [code |-> 400, msg |-> "invite expired"]
               /\ u \notin DOMAIN userDB'
               /\ k \notin DOMAIN userDB'
               /\ <<"email.", Sha256(ToLower(userDB[u].Email))>> \notin DOMAIN userDB'
               /\ IndexOfIn(userDB', "email.", u) = {}]_vars

\* C7: RemoveUser on an existing user succeeds and commits a state with no
\* record for that id and no e-mail, invite, password_edit or email_edit
\* index entry that maps to it.
C7_RemoveUserCascades ==
    [][(last'.op = "RemoveUser" /\ last'.user \in DOMAIN userDB)
          => /\ last'.err = Nil
             /\ last'.user \notin DOMAIN userDB'
             /\ \A ns \in Namespaces \cup {"email."} :
                   IndexOfIn(userDB', ns, last'.user) = {}]_vars

\* C8: after RemoveUser(id) commits, the user_sessions index entry of id and
\* every session entry it listed are absent.
C8_RemoveUserDropsSessions ==
    [][(last'.op = "RemoveUser" /\ last'.err = Nil)
          => LET ix == <<"user_sessions.", Sha256(last'.user)>>
             IN /\ ix \notin DOMAIN sessionDB'
                /\ ix \in DOMAIN sessionDB
                   => \A i \in 1 .. Len(sessionDB[ix]) :
                         sessionDB[ix][i] \notin DOMAIN sessionDB']_vars

\* C9: CompletePasswordEdit with a token whose PassEditExpiry has passed
\* returns 400 "password reset token expired", keeps PassHash, PassSalt and
\* the sessions, removes the token index entry and clears PassEditKey and
\* PassEditExpiry; a Complete with a token that has no index entry returns
\* 404 and changes nothing, and the entry of a minted token never comes back.
C9_ExpiredPasswordReset ==
    [][/\ \A t \in 1 .. MaxTokens :
            LET k == <<"password_edit.", Sha256(t)>>
                u == userDB[k]
            IN (last'.op = "CompletePasswordEdit" /\ last'.token = t)
               => /\ (/\ k \in DOMAIN userDB
                      /\ u \in DOMAIN userDB
                      /\ userDB[u].PassEditExpiry < now)
                     => /\ last'.err = [code |-> 400,
                                        msg |-> "password reset token expired"]
                        /\ u \in DOMAIN userDB'
                        /\ userDB'[u].PassHash = userDB[u].PassHash
                        /\ userDB'[u].PassSalt = userDB[u].PassSalt
                        /\ sessionDB' = sessionDB
                        /\ k \notin DOMAIN userDB'
                        /\ userDB'[u].PassEditKey = NoKey
                        /\ userDB'[u].PassEditExpiry = ZeroTime
                  /\ k \notin DOMAIN userDB
                     => /\ last'.err.code = 404
                        /\ userDB' = userDB
                        /\ sessionDB' = sessionDB
       /\ \A t \in 1 .. Len(issued) :
            LET k == <<issued[t].ns, Sha256(t)>>
            IN k \notin DOMAIN userDB => k \notin DOMAIN userDB']_vars

\* C9 witness: an expired reset was refused for a user who has a password and
\* a recorded session
C9_Witness ==
    /\ last.op = "CompletePasswordEdit"
    /\ last.err = [code |-> 400, msg |-> "password reset token expired"]
    /\ last.user \in DOMAIN userDB
    /\ userDB[last.user].PassHash # <<>>
    /\ <<"user_sessions.", Sha256(last.user)>> \in DOMAIN sessionDB

\* C10: once a Complete call has succeeded with a minted token, every later
\* Complete of that workflow with the same token returns 404 and changes
\* nothing, so at most one Complete per token succeeds.
C10_TokensSingleUse ==
    [][\A t \in 1 .. Len(issued) :
         (/\ issued[t].used
          /\ last'.op = CompleteOp(issued[t].ns)
          /\ last'.token = t)
         => /\ last'.err.code = 404
            /\ userDB' = userDB
            /\ sessionDB' = sessionDB]_vars

\* C10 witness: a token that has been redeemed was presented again
C10_Witness ==
    /\ last.token \in 1 .. Len(issued)
    /\ issued[last.token].used
    /\ last.op = CompleteOp(issued[last.token].ns)
    /\ last.err.code = 404

----------------------------------------------------------------------------
(* Login: lockout and the sliding window *)

\* a LoginUser call whose transaction found the record of user u
LoginStep(u) ==
    /\ last = Idle
    /\ last'.op = "LoginUser"
    /\ last'.user = u
    /\ u \in DOMAIN userDB

\* how many of the given times lie less than an hour before t
Within(times, t) == Cardinality({i \in DOMAIN times : t - times[i] < 60})

\* the password argument of the call in `last'` is the user's password
RightPassword(user, password) == user.PassHash = <<"argon2", password, user.PassSalt>>

C13_NoTimestampOnSuccess ==
    [][\A u \in UserKeys :
          (/\ LoginStep(u)
           /\ Within(userDB[u].FailedLogins, now) < 5
           /\ RightPassword(userDB[u], last'.password))
          => /\ last'.err.code = 0
             /\ last'.user = u
             /\ Len(userDB'[u].FailedLogins) = Within(userDB[u].FailedLogins, now)]_vars

\* C14: no user's failedLogins list is ever longer than the lockout
\* threshold of five.
C14_FailedLoginsBounded ==
    \A k \in UserRecs : Len(userDB[k].FailedLogins) <= 5

\* a login has filled a user's list up to the threshold
C14_Witness ==
    /\ last.op = "LoginUser"
    /\ last.user \in DOMAIN userDB
    /\ Len(userDB[last.user].FailedLogins) = 5

\* C20: for an account with fewer than five failures in the last hour, a
\* LoginUser with a wrong password returns the error an unknown address
\* gets, 401 "invalid email or password"; and a LoginUser with an address
\* that has no index entry returns that error and changes nothing.
C20_NoExistenceOracle ==
    [][/\ \A u \in UserKeys :
             (/\ LoginStep(u)
              /\ Within(userDB[u].FailedLogins, now) < 5
              /\ ~RightPassword(userDB[u], last'.password))
             => last'.err = [code |-> 401, msg |-> "invalid email or password"]
       /\ (/\ last = Idle
           /\ last'.op = "LoginUser"
           /\ last'.email # ""
           /\ emailToKey(last'.email) \notin DOMAIN userDB)
          => /\ last'.err = [code |-> 401, msg |-> "invalid email or password"]
             /\ userDB' = userDB
             /\ sessionDB' = sessionDB]_vars

----------------------------------------------------------------------------
(* Session revocation *)

CompleteEditOps == {"CompletePasswordEdit", "CompleteEmailEdit"}

\* C15: when CompletePasswordEdit or CompleteEmailEdit succeeds, the
\* committed state holds neither the user's session index nor any session
\* the index listed; when the call returns an error (expired, no pending
\* change, e-mail conflict, or any other) the session store is unchanged.
C15_SessionRevocation ==
    [][(last = Idle /\ last'.op \in CompleteEditOps)
       => IF last'.err.code = 0
          THEN LET indexKey == <<"user_sessions.", <<"sha256", last'.user>>>>
               IN /\ indexKey \notin DOMAIN sessionDB'
                  /\ indexKey \in DOMAIN sessionDB
                     => \A i \in DOMAIN sessionDB[indexKey] :
                            sessionDB[indexKey][i] \notin DOMAIN sessionDB'
          ELSE sessionDB' = sessionDB]_vars

\* a Complete call succeeded for a user whose index listed a session
C15_Witness ==
    /\ last.op \in CompleteEditOps
    /\ last.err.code = 0
    /\ last.sessions >= 1
    /\ sessionDB = EmptyDB

----------------------------------------------------------------------------
(* The invite workflow, completed in time *)

\* C16: a CompleteUserInvite with a name, a password and the token of an
\* invite that has not expired succeeds, and the committed user has that
\* name, no invite key, a zero invite expiry, a hash that verifies against
\* the password (LoginUser with the user's e-mail and the password returns
\* the user), AgreedPP = ppVersion, an e-mail index entry that maps to the
\* user and no invite index entry.
C16_InviteHappyPath ==
    [][\A u \in UserKeys :
          (/\ last = Idle
           /\ last'.op = "CompleteUserInvite"
           /\ last'.token \in 1..Len(issued)
           /\ <<"invite.", <<"sha256", last'.token>>>> \in DOMAIN userDB
           /\ userDB[<<"invite.", <<"sha256", last'.token>>>>] = u
           /\ u \in DOMAIN userDB
           /\ userDB[u].InviteExpiry >= now)
          => /\ last'.err.code = 0
             /\ last'.user = u
             /\ u \in DOMAIN userDB'
             /\ LET user == userDB'[u]
                    login == LoginUserTxn(userDB', user.Email, last'.password, now', NoFault)
                IN /\ user.Name = last'.name
                   /\ user.InviteKey = <<>>
                   /\ user.InviteExpiry = 0
                   /\ user.PassHash = <<"argon2", last'.password, user.PassSalt>>
                   /\ login.err.code = 0 /\ login.returnErr.code = 0
                   /\ login.userKey = u
                   /\ user.AgreedPP = 1
                   /\ <<"email.", <<"sha256", ToLower(user.Email)>>>> \in DOMAIN userDB'
                   /\ userDB'[<<"email.", <<"sha256", ToLower(user.Email)>>>>] = u
                   /\ \A k \in DOMAIN userDB' : k[1] = "invite." => userDB'[k] # u]_vars

\* an invite was completed with the second password
C16_Witness ==
    /\ last.op = "CompleteUserInvite"
    /\ last.err.code = 0
    /\ last.password = "p2"
    /\ last.user \in DOMAIN userDB
    /\ userDB[last.user].Name = "bob"

----------------------------------------------------------------------------
(* The e-mail change *)

EmailIndex(db) == {k \in DOMAIN db : k[1] = "email."}

\* a CompleteEmailEdit call that presents the stored token of user u
EmailEditStep(u) ==
    /\ last = Idle
    /\ last'.op = "CompleteEmailEdit"
    /\ last'.token \in 1..Len(issued)
    /\ <<"email_edit.", <<"sha256", last'.token>>>> \in DOMAIN userDB
    /\ userDB[<<"email_edit.", <<"sha256", last'.token>>>>] = u
    /\ u \in DOMAIN userDB

\* the pending e-mail change of the record is cleared
NoPendingEmail(user) ==
    user.EditEmail = "" /\ user.EmailEditKey = <<>> /\ user.EmailEditExpiry = 0

\* C17: when the candidate address has an index entry by the time
\* CompleteEmailEdit runs, the call returns 409, the user's Email and
\* EmailKey and every e-mail index entry are as before, and the committed
\* state has neither the token's index entry nor the pending fields.
C17_UniquenessRecheck ==
    [][\A u \in UserKeys :
          (/\ EmailEditStep(u)
           /\ userDB[u].EditEmail # ""
           /\ <<"email.", <<"sha256", ToLower(userDB[u].EditEmail)>>>> \in DOMAIN userDB)
          => /\ last'.err.code = 409
             /\ u \in DOMAIN userDB'
             /\ userDB'[u].Email = userDB[u].Email
             /\ userDB'[u].EmailKey = userDB[u].EmailKey
             /\ EmailIndex(userDB') = EmailIndex(userDB)
             /\ \A k \in EmailIndex(userDB) : userDB'[k] = userDB[k]
             /\ <<"email_edit.", <<"sha256", last'.token>>>> \notin DOMAIN userDB'
             /\ NoPendingEmail(userDB'[u])]_vars

\* a completion was refused with 409 after an invite issued later than the
\* e-mail edit token had taken an address
C17_Witness ==
    /\ last.op = "CompleteEmailEdit"
    /\ last.err.code = 409
    /\ last.user \in DOMAIN userDB
    /\ NoPendingEmail(userDB[last.user])
    /\ \E t \in DOMAIN issued :
          /\ t > last.token
          /\ issued[t].ns = "invite."
          /\ issued[t].user # last.user
          /\ issued[t].user \in DOMAIN userDB

\* C18: a CompleteEmailEdit with the stored, unexpired token of any user
\* whose candidate address is unused succeeds; afterwards the old address
\* has no index entry, the candidate's entry maps to the user, Email is the
\* candidate, EmailKey is the candidate's index key and the pending fields
\* are cleared.
C18_EmailChange ==
    [][\A u \in UserKeys :
          LET candidate == userDB[u].EditEmail
              candidateKey == <<"email.", <<"sha256", ToLower(candidate)>>>>
              oldKey == <<"email.", <<"sha256", ToLower(userDB[u].Email)>>>>
          IN (/\ EmailEditStep(u)
              /\ candidate # ""
              /\ userDB[u].EmailEditKey # <<>>
              /\ userDB[u].EmailEditExpiry >= now
              /\ candidateKey \notin DOMAIN userDB)
             => /\ last'.err.code = 0
                /\ u \in DOMAIN userDB'
                /\ oldKey \notin DOMAIN userDB'
                /\ candidateKey \in DOMAIN userDB'
                /\ userDB'[candidateKey] = u
                /\ userDB'[u].Email = candidate
                /\ userDB'[u].EmailKey = candidateKey
                /\ NoPendingEmail(userDB'[u])]_vars

----------------------------------------------------------------------------
(* Token fields *)

\* C19: in every committed state and for every user, each workflow's key
\* field (invite, password edit, e-mail edit) is non-empty exactly when its
\* expiry is non-zero.
C19_TokenExpiryPairing ==
    \A k \in UserRecs :
        /\ userDB[k].InviteKey # <<>> <=> userDB[k].InviteExpiry # 0
        /\ userDB[k].PassEditKey # <<>> <=> userDB[k].PassEditExpiry # 0
        /\ userDB[k].EmailEditKey # <<>> <=> userDB[k].EmailEditExpiry # 0

\* a password edit was completed for a user who still has an e-mail edit
\* pending: one pair is cleared, the other is set
C19_Witness ==
    /\ last.op = "CompletePasswordEdit"
    /\ last.err.code = 0
    /\ last.user \in DOMAIN userDB
    /\ userDB[last.user].PassEditKey = <<>>
    /\ userDB[last.user].PassEditExpiry = 0
    /\ userDB[last.user].EmailEditKey # <<>>
    /\ userDB[last.user].EmailEditExpiry # 0

----------------------------------------------------------------------------
(* Calls refused before the transaction *)

CompleteOps == {"CompleteUserInvite", "CompletePasswordEdit", "CompleteEmailEdit"}
InvalidInputMsgs == {"invalid token", "invalid username", "invalid password"}

\* C21: a Complete call answered with 400 for an invalid argument or with
\* 429 by the rate limiter leaves both stores unchanged, so every index
\* entry, the presented token's included, is still there to be redeemed.
C21_RejectedBeforeTransaction ==
    [][(/\ last = Idle
        /\ last'.op \in CompleteOps
        /\ \/ last'.err.code = 429
           \/ last'.err.code = 400 /\ last'.err.msg \in InvalidInputMsgs)
       => /\ userDB' = userDB
          /\ sessionDB' = sessionDB]_vars

\* the limiter refused a CompleteUserInvite that presented the first token
\* while that invite was pending, and the invite is still pending
C21_Witness ==
    /\ last.op = "CompleteUserInvite"
    /\ last.err.code = 429
    /\ Len(issued) >= 1
    /\ issued[1].ns = "invite."
    /\ ~issued[1].used
    /\ <<"invite.", <<"sha256", 1>>>> \in DOMAIN userDB

----------------------------------------------------------------------------
(* E-mail keys *)

\* C25: StartUserInvite and StartEmailEdit with an address whose lower-case
\* form is already indexed (so also one that differs only in letter case
\* from an address in use) return 409 and leave the stores unchanged.
C25_CaseInsensitiveConflict ==
    [][(/\ last = Idle
        /\ last'.op \in {"StartUserInvite", "StartEmailEdit"}
        /\ last'.email # ""
        /\ <<"email.", <<"sha256", ToLower(last'.email)>>>> \in DOMAIN userDB)
       => /\ last'.err.code = 409
          /\ userDB' = userDB
          /\ sessionDB' = sessionDB]_vars

\* an invite for "A@x" was refused while a user holds "a@x"
C25_Witness ==
    /\ last.op = "StartUserInvite"
    /\ last.email = "A@x"
    /\ last.err.code = 409
    /\ \E k \in UserRecs : userDB[k].Email = "a@x"

\* C26: in every committed state each stored user's EmailKey is the index
\* key of the user's Email, and the store entry at that key maps to the
\* user.
C26_BackReference ==
    \A k \in UserRecs :
        LET key == <<"email.", <<"sha256", ToLower(userDB[k].Email)>>>>
        IN /\ userDB[k].EmailKey = key
           /\ key \in DOMAIN userDB
           /\ userDB[key] = k

----------------------------------------------------------------------------
(* The mail send and the transaction *)

\* C28: in StartPasswordEdit and StartEmailEdit the mail is not sent while
\* the write transaction is open: whenever the call got as far as the send,
\* whether the send worked or failed, the transaction's writes are in the
\* committed state (the user has a new pending key and its index entry
\* exists).
C28_SendOutsideTransaction ==
    [][\A u \in UserKeys :
          (/\ last = Idle
           /\ last'.op \in {"StartPasswordEdit", "StartEmailEdit"}
           /\ last'.user = u
           /\ last'.sent # "none")
          => /\ u \in DOMAIN userDB'
             /\ LET before == IF last'.op = "StartPasswordEdit"
                              THEN userDB[u].PassEditKey ELSE userDB[u].EmailEditKey
                    after == IF last'.op = "StartPasswordEdit"
                             THEN userDB'[u].PassEditKey ELSE userDB'[u].EmailEditKey
                IN /\ after # before
                   /\ after \in DOMAIN userDB']_vars

----------------------------------------------------------------------------
(* The reads *)

ReadOps == {"GetUserByKey", "GetUserByEmail", "GetAllUsers"}

\* C29: every user returned by GetUserByKey, GetUserByEmail or GetAllUsers
\* has an empty PassHash and an empty PassSalt, whatever the store holds.
C29_NoCredentialsReturned ==
    last.op \in ReadOps
    => \A i \in DOMAIN last.users :
          /\ last.users[i].PassHash = <<>>
          /\ last.users[i].PassSalt = ""

\* GetAllUsers returned a user whose stored record holds a hash and a salt
C29_Witness ==
    /\ last.op = "GetAllUsers"
    /\ Len(last.users) >= 1
    /\ last.users[1].ID \in DOMAIN userDB
    /\ userDB[last.users[1].ID].PassHash # <<>>
    /\ userDB[last.users[1].ID].PassSalt # ""

----------------------------------------------------------------------------
(* The admin e-mail edit *)

\* no two stored users hold the same lower-cased address
UniqueEmails(db) ==
    \A j, k \in {x \in DOMAIN db : x[1] = "user."} :
        j # k => ToLower(db[j].Email) # ToLower(db[k].Email)

\* C30: SetUserEmail never makes two users hold the same lower-cased
\* address, and never removes, redirects or overwrites an e-mail index
\* entry that maps to another user.
C30_SetUserEmailKeepsUniqueness ==
    [][(last = Idle /\ last'.op = "SetUserEmail")
       => /\ UniqueEmails(userDB) => UniqueEmails(userDB')
          /\ \A k \in EmailIndex(userDB) :
                userDB[k] # last'.user
                => k \in DOMAIN userDB' /\ userDB'[k] = userDB[k]]_vars


\* C23: genKey never returns a key the store already holds: among at most
\* ten candidates it returns the first one absent from the store, and when
\* all ten are taken it returns an error; the Start call that gets this error
\* leaves the store as it was, and a Start call that succeeds files its token
\* under a key that was absent (or was the user's own dropped pending key).
Taken(ns, token) == <<ns, <<"sha256", token>>>> \in DOMAIN userDB

GenKeyContract ==
    \A ns \in EditNs, draws \in RepeatingDraws(1..MaxTokens) :
        LET gen == genKey(userDB, ns, draws)
        IN IF \A i \in 1..MaxKeyAttempts : Taken(ns, draws[i])
           THEN gen.err # Nil /\ gen.key = NoKey
           ELSE /\ gen.err = Nil
                /\ gen.key \notin DOMAIN userDB
                /\ \E i \in 1..MaxKeyAttempts :
                      /\ gen.key = <<ns, <<"sha256", draws[i]>>>>
                      /\ \A j \in 1..(i - 1) : Taken(ns, draws[j])

C23_GenKeyNeverReturnsExistingKey ==
    [][/\ GenKeyContract
       /\ (last = Idle /\ last'.op = "StartPasswordEdit") =>
            /\ last'.err.msg = "failed to generate password edit key" => userDB' = userDB
            /\ last'.err = Nil =>
                 LET key == userDB'[last'.user].PassEditKey
                 IN /\ key # NoKey
                    /\ userDB'[key] = last'.user
                    /\ \/ key \notin DOMAIN userDB
                       \/ key = userDB[last'.user].PassEditKey]_vars

\* a password reset was refused because all ten candidates were taken
C23_Witness ==
    /\ last.op = "StartPasswordEdit"
    /\ last.err.msg = "failed to generate password edit key"
    /\ \E token \in 1..MaxTokens : Taken("password_edit.", token)


\* C24: StartUserInvite writes the new user record and the new invite index
\* entry only at keys the store did not hold, whatever the random source
\* returns: no user record and no invite index entry is overwritten.
C24_InviteWritesOnlyAbsentKeys ==
    [][(last = Idle /\ last'.op = "StartUserInvite" /\ last'.err = Nil) =>
          /\ last'.user \notin DOMAIN userDB
          /\ <<"invite.", <<"sha256", last'.token>>>> \notin DOMAIN userDB]_vars


\* C27: store errors are never swallowed: when a get, put or delete of a
\* workflow transaction fails with an error other than not-found, nothing is
\* committed and the caller receives an error; a failed delete during the
\* cleanup of an expired invite commits no partially cleaned state.
C27_StoreErrorsAbort ==
    [][(last = Idle /\ last'.faulted) =>
          /\ userDB' = userDB
          /\ sessionDB' = sessionDB
          /\ last'.err.code # 0]_vars


\* C22: each of the three rate-limited operations answers 429 only when no
\* token becomes available before the two-second deadline: a call that finds
\* the bucket empty waits for the next token and then proceeds.
LimiterOf(op) ==
    IF op = "CompleteUserInvite" THEN "inviteLimiter"
    ELSE IF op = "CompletePasswordEdit" THEN "passEditLimiter"
    ELSE "emailEditLimiter"

C22_RateLimitedOnlyAfterDeadline ==
    [][(last = Idle /\ last'.op \in CompleteOps /\ last'.err.code = 429) =>
          1 - buckets[LimiterOf(last'.op)] > WaitDeadline]_vars


\* C31: a LoginUser attempt with a wrong password on an account whose
\* recorded failures within the last hour have reached the maximum returns
\* LoginLockoutErr (403), not the generic 401 credential error.
C31_WrongPasswordWhenLockedOut ==
    [][\A u \in UserKeys :
          (/\ LoginStep(u)
           /\ Within(userDB[u].FailedLogins, now) >= 5
           /\ ~RightPassword(userDB[u], last'.password))
          => last'.err.code = 403]_vars


\* C32: StartEmailEdit with a candidate equal, ignoring case, to the
\* user's own current email is rejected with the 400 error 'this is already
\* your current email' and changes nothing.
C32_SameEmailRejected ==
    [][\A u \in UserKeys :
          (/\ last = Idle
           /\ last'.op = "StartEmailEdit"
           /\ last'.user = u
           /\ u \in DOMAIN userDB
           /\ last'.email \in {"a@x", "A@x"}
           /\ userDB[u].Email \in {"a@x", "A@x"})
          => /\ last'.err = [code |-> 400, msg |-> "this is already your current email"]
             /\ userDB' = userDB
             /\ sessionDB' = sessionDB]_vars


\* C33: when the mail send fails in StartPasswordEdit or StartEmailEdit the
\* transaction aborts and the store is exactly as before the call: a token
\* of that workflow pending for the user is still indexed, and no new token
\* index entry exists.
StartEditOps == {"StartPasswordEdit", "StartEmailEdit"}

C33_FailedSendAborts ==
    [][(last = Idle /\ last'.op \in StartEditOps /\ last'.sent = "failed") =>
          /\ userDB' = userDB
          /\ sessionDB' = sessionDB
          /\ last'.err.code # 0
          /\ last'.token = 0]_vars

\* the send failed for a user who had a token of that workflow pending,
\* and the token is still indexed
C33_Witness ==
    /\ last.op \in StartEditOps
    /\ last.sent = "failed"
    /\ last.user \in DOMAIN userDB
    /\ LET key == IF last.op = "StartPasswordEdit"
                  THEN userDB[last.user].PassEditKey
                  ELSE userDB[last.user].EmailEditKey
       IN /\ key # NoKey
          /\ key \in DOMAIN userDB
          /\ userDB[key] = last.user


\* C34: failed logins are not lost under concurrency: LoginUser calls made
\* at once with a wrong password for one user whose failedLogins list was
\* empty leave exactly min(K, 5) timestamps, K being the number of calls
\* that have committed, in every interleaving.
FailedCalls(u) ==
    Cardinality({p \in Procs : /\ procs[p].pc = "done"
                               /\ procs[p].user = u
                               /\ procs[p].err.code \in {401, 403}})

C34_NoFailedLoginLost ==
    \A u \in UserRecs :
        Len(userDB[u].FailedLogins) =
            (IF FailedCalls(u) < 5 THEN FailedCalls(u) ELSE 5)

\* six calls for one user have finished and five timestamps are on record
C34_Witness ==
    \E u \in UserRecs :
        /\ FailedCalls(u) = 6
        /\ Len(userDB[u].FailedLogins) = 5


\* C35: lockout is not extended by attempts made while locked out: a
\* LoginUser call made while the account holds five failures within the
\* hour adds no timestamp, and once the oldest of five recorded failures is
\* more than one hour old the next LoginUser with the right password
\* succeeds.
C35_LockoutNotExtended ==
    [][\A u \in UserKeys :
          (LoginStep(u) /\ Len(userDB[u].FailedLogins) = 5)
          => /\ Within(userDB[u].FailedLogins, now) = 5
                => userDB'[u].FailedLogins = userDB[u].FailedLogins
             /\ (/\ \E i \in 1..5 : now - userDB[u].FailedLogins[i] > 60
                 /\ RightPassword(userDB[u], last'.password))
                => /\ last'.err.code = 0
                   /\ last'.user = u]_vars

\* the right password was accepted on a full list whose oldest entries had
\* left the window: the call recorded nothing (a list shorter than five
\* gets the time of the call) and kept the younger entries
C35_Witness ==
    /\ last.op = "LoginUser"
    /\ last.err.code = 0
    /\ last.user \in DOMAIN userDB
    /\ RightPassword(userDB[last.user], last.password)
    /\ Len(userDB[last.user].FailedLogins) >= 1
    /\ \A i \in DOMAIN userDB[last.user].FailedLogins :
          userDB[last.user].FailedLogins[i] < now


\* C36: the cleanup of expired invites removes only users that never
\* finished registration: CompleteUserInvite never deletes a user whose
\* PassHash is non-empty.
C36_CleanupSparesRegisteredUsers ==
    [][(last = Idle /\ last'.op = "CompleteUserInvite") =>
          \A u \in UserRecs :
              userDB[u].PassHash # <<>> => u \in DOMAIN userDB']_vars


\* C37: a user's PassHash and PassSalt change only in a CompleteUserInvite
\* with the user's unexpired invite token or a CompletePasswordEdit with
\* the user's pending, unexpired reset token; every other operation, and
\* every failing Complete, leaves them unchanged.
Credentials(user) == <<user.PassHash, user.PassSalt>>

MigrateStep ==
    \E p \in Procs : procs[p].pc = "Migrate" /\ procs'[p].pc # "Migrate"

C38_MigrateIdempotent ==
    [][MigrateStep =>
          IF "version" \in DOMAIN configDB
          THEN configDB' = configDB
          ELSE /\ DOMAIN configDB' = {"version", "updateNotify", "updateAvailable", "port"}
               /\ configDB'["version"] = "v1.0.0"
               /\ configDB'["updateNotify"] = TRUE
               /\ configDB'["updateAvailable"] = FALSE
               /\ configDB'["port"] = 28080]_vars

\* an instance has started on a store in which the notification was
\* switched off, and the value is still off
C38_Witness ==
    /\ "updateNotify" \in DOMAIN configDB
    /\ configDB["updateNotify"] = FALSE
    /\ \E p, q \in Procs : /\ procs[p].pc = "done"
                           /\ procs[p].val = FALSE
                           /\ procs[p].err.code = 0
                           /\ q > p
                           /\ procs[q].pc = "ready"
                           /\ \A r \in Procs : r > p => procs[r].pc \in {"idle", "ready"}

\* C39: config updates are atomic across instances: when update-toggle-notify
\* invocations run concurrently each one flips updateNotify, so once all of
\* them have finished the value is the original one after an even number of
\* them and the opposite after an odd number (no toggle is lost).
Toggled == {p \in Procs : procs[p].pc = "done" /\ procs[p].err.code = 0}

C39_NoToggleLost ==
    (/\ \A p \in Procs : procs[p].pc \in {"idle", "done"}
     /\ "updateNotify" \in DOMAIN configDB)
    => configDB["updateNotify"] = (Cardinality(Toggled) % 2 = 0)


\* C40: detached updates are throttled: for any interleaving of concurrent
\* Update(ctx, detach=true) calls, at most one install pipeline is started
\* within any window of DetachUpdateDelay (30 s), and a call that arrives
\* less than 30 s after the last started detached update returns an error
\* without starting a process or writing config.
PipelinesApart ==
    \A i, j \in 1..Len(pipelines) : i < j => pipelines[j] - pipelines[i] >= 30

C40_DetachedUpdatesThrottled ==
    /\ []PipelinesApart
    /\ [][\A p \in Procs :
            (/\ procs[p].pc = "Update"
             /\ procs'[p].pc # "Update"
             /\ pipelines # <<>>
             /\ clock - pipelines[Len(pipelines)] < 30)
            => /\ procs'[p].pc = "done"
               /\ procs'[p].err.code # 0
               /\ pipelines' = pipelines
               /\ configDB' = configDB]_vars

\* two pipelines were started, and a call was turned away as too recent
C40_Witness ==
    /\ Len(pipelines) = 2
    /\ \E p \in Procs :
          /\ procs[p].pc = "done"
          /\ procs[p].err.msg = "update already initiated recently, please wait a bit before trying again"

====
